---- MODULE Spec2Model ----
(***************************************************************************)
(* Model of the Bitcoin-style UTXO ledger simulator.                       *)
(*                                                                         *)
(* Two programs live in the repository and both are modelled:              *)
(*   - the service of src/api (BitcoinService over InMemoryDatabase):      *)
(*     variables utxos, mempool, chain, now, genesis, result, and, for     *)
(*     the mine_block calls that server threads run concurrently, mining   *)
(*     (per thread: where the call stands and its local variables), and    *)
(*     observed (what the last get_utxos call of a reader returned);       *)
(*   - the console engine of src/src (UTXOManager, Mempool,                *)
(*     TransactionValidator, block.mine_block): variables utxo_set,        *)
(*     transactions, spent_utxos, block_counter, ret, and the history    *)
(*     variable committed (the ids block.mine_block has committed).      *)
(*                                                                         *)
(* Amounts are integers (a fixed-point unit); a dict is a sequence of      *)
(* entries in insertion order; a formatted string id such as               *)
(* f"tx_{timestamp}_{suffix}" is the tuple <<"tx", timestamp, suffix>>,    *)
(* which is equal exactly when the formatted strings are equal.            *)
(***************************************************************************)
EXTENDS Integers, Sequences, FiniteSets, TLC

VARIABLES utxos, mempool, chain, now, genesis, result, mining, observed,
          utxo_set, transactions, spent_utxos, block_counter, committed, ret

apiVars == <<utxos, mempool, chain, now, genesis, result, mining, observed>>
coreVars == <<utxo_set, transactions, spent_utxos, block_counter, committed, ret>>
vars == <<utxos, mempool, chain, now, genesis, result, mining, observed,
          utxo_set, transactions, spent_utxos, block_counter, committed, ret>>

(***************************************************************************)
(* Bounds of the model.                                                    *)
(***************************************************************************)
MaxTime == 1
NumSuffix == 1
MaxMempool == 2
MaxBlocks == 2
MaxLongChain == 22
max_size == 2

(***************************************************************************)
(* Program constants.                                                      *)
(***************************************************************************)
RandLo == 1000
ChainReadCap == 20

Addr == {"Alice", "Bob", "Miner"}
Miners == {"Miner"}

\* the server threads that may each be running a mine_block call, and the
\* record of a thread that runs none
Threads == {1, 2}
Idle == [pc |-> "idle", miner_address |-> "", selected |-> <<>>, block |-> <<>>,
         done |-> 0]
\* what a reader holds before its first get_utxos call
NothingRead == [address |-> "", utxos |-> <<>>]
Suffixes == RandLo .. (RandLo + NumSuffix - 1)
Amounts == {-1, 0, 1, 2}
Fees == {-1, 0, 1}
NumTxsChoices == {-1, 0, 1, 2}
GENESIS_ID == <<"genesis", 0, 0>>
GENESIS_HASH == <<"genesis", 0, "", 0, 0>>

(***************************************************************************)
(* Generic helpers on sequences.                                           *)
(***************************************************************************)
RECURSIVE SumAmounts(_)
SumAmounts(s) == IF s = <<>> THEN 0 ELSE Head(s).amount + SumAmounts(Tail(s))

Range(s) == {s[i] : i \in 1..Len(s)}

Min2(a, b) == IF a < b THEN a ELSE b
Max2(a, b) == IF a > b THEN a ELSE b

\* Python's seq[:n], for n of either sign
PySlice(s, n) ==
    IF n >= 0 THEN SubSeq(s, 1, Min2(n, Len(s)))
    ELSE SubSeq(s, 1, Max2(Len(s) + n, 0))

\* Python's seq[::-1]
Reverse(s) == [i \in 1..Len(s) |-> s[Len(s) + 1 - i]]

(***************************************************************************)
(* InMemoryDatabase: the UTXO dict as a sequence in insertion order.       *)
(***************************************************************************)
KeyOf(u) == <<u.tx_id, u.index>>
InpKey(inp) == <<inp.prev_tx, inp.index>>

HasUtxo(store, k) == \E i \in 1..Len(store) : KeyOf(store[i]) = k

get_utxo(store, k) == store[CHOOSE i \in 1..Len(store) : KeyOf(store[i]) = k]

\* dict[key] = value: replaces in place when the key is present
add_utxo(store, u) ==
    IF HasUtxo(store, KeyOf(u))
    THEN [i \in 1..Len(store) |-> IF KeyOf(store[i]) = KeyOf(u) THEN u ELSE store[i]]
    ELSE Append(store, u)

IsNotKey(u, k) == KeyOf(u) # k

\* remove_utxo that deletes nothing
remove_utxo_Keeps(store, k) == store

\* database.remove_utxo: the entry under the key is deleted, if there is one
remove_utxo(store, k) ==
    LET Keep(u) == IsNotKey(u, k) IN SelectSeq(store, Keep)

get_utxos(store, owner) ==
    LET Mine(u) == u.owner = owner IN SelectSeq(store, Mine)

\* a remove_from_mempool that removes nothing
remove_from_mempool_KeepsAll(pool, tx_id) == pool

remove_from_mempool(pool, tx_id) ==
    LET Keep(tx) == tx.tx_id # tx_id IN SelectSeq(pool, Keep)

\* the capped read without the reversal
get_blockchain_OldestFirst(c) == PySlice(c, ChainReadCap)

get_blockchain(c) == PySlice(Reverse(c), ChainReadCap)

\* a store that keeps only the block it is given
add_block_Replaces(c, block) == <<block>>

\* InMemoryDatabase.add_block: self.chain.append(block)
add_block(c, block) == Append(c, block)

get_balance(store, address) == SumAmounts(get_utxos(store, address))

TotalSupply(store) == SumAmounts(store)

(***************************************************************************)
(* BitcoinService.validate_transaction                                     *)
(***************************************************************************)
InputKeys(tx) == {InpKey(tx.inputs[i]) : i \in 1..Len(tx.inputs)}

\* keys spent by the pending transactions whose tx_id differs (lines 43-49)
SpentInMempoolExcept(pool, tx_id) ==
    UNION {InputKeys(pool[j]) : j \in {m \in 1..Len(pool) : pool[m].tx_id # tx_id}}

\* the fixed part of each rejection message
NEGATIVE_OUTPUT == "Negative output amount"
DUPLICATE_INPUT == "Double-spend in same transaction"
MISSING_UTXO == "does not exist"
OWNER_MISMATCH == "UTXO owner mismatch"
MEMPOOL_CONFLICT == "already spent by transaction in mempool"
INSUFFICIENT_INPUT == "Insufficient inputs"

Verdict(ok, reason, fee) == [ok |-> ok, reason |-> reason, fee |-> fee]

InputTotal(store, tx) ==
    LET RECURSIVE Acc(_)
        Acc(i) == IF i = 0 THEN 0
                  ELSE Acc(i - 1) + get_utxo(store, InpKey(tx.inputs[i])).amount
    IN Acc(Len(tx.inputs))

\* a validation without rule 1 (lines 16-19)
validate_transaction_AllowsNegative(store, pool, tx) ==
    IF InputTotal(store, tx) < SumAmounts(tx.outputs)
    THEN Verdict(FALSE, INSUFFICIENT_INPUT, 0)
    ELSE Verdict(TRUE, "Valid", InputTotal(store, tx) - SumAmounts(tx.outputs))

validate_transaction(store, pool, tx) ==
    LET nIn == Len(tx.inputs)
        negOut == {i \in 1..Len(tx.outputs) : tx.outputs[i].amount < 0}
        dupIn == {i \in 1..nIn :
                    \E j \in 1..(i - 1) : InpKey(tx.inputs[j]) = InpKey(tx.inputs[i])}
        badIn == {i \in 1..nIn :
                    \/ ~HasUtxo(store, InpKey(tx.inputs[i]))
                    \/ get_utxo(store, InpKey(tx.inputs[i])).owner # tx.inputs[i].owner}
        firstBad == CHOOSE i \in badIn : \A j \in badIn : i <= j
        spent == SpentInMempoolExcept(pool, tx.tx_id)
        total_output == SumAmounts(tx.outputs)
    IN  IF negOut # {} THEN Verdict(FALSE, NEGATIVE_OUTPUT, 0)
        ELSE IF dupIn # {} THEN Verdict(FALSE, DUPLICATE_INPUT, 0)
        ELSE IF badIn # {} THEN
            IF ~HasUtxo(store, InpKey(tx.inputs[firstBad]))
            THEN Verdict(FALSE, MISSING_UTXO, 0)
            ELSE Verdict(FALSE, OWNER_MISMATCH, 0)
        ELSE IF InputKeys(tx) \cap spent # {}
            THEN Verdict(FALSE, MEMPOOL_CONFLICT, 0)
        ELSE IF InputTotal(store, tx) < total_output
            THEN Verdict(FALSE, INSUFFICIENT_INPUT, 0)
        ELSE Verdict(TRUE, "Valid", InputTotal(store, tx) - total_output)

(***************************************************************************)
(* BitcoinService.create_transaction                                       *)
(***************************************************************************)
AllSpentInMempool(pool) == UNION {InputKeys(pool[j]) : j \in 1..Len(pool)}

\* available_utxos without the filter on the keys claimed in the mempool
available_utxos_IgnoresPending(store, pool, sender) == get_utxos(store, sender)

\* lines 64-74: the sender's UTXOs whose key no pending input references
available_utxos(store, pool, sender) ==
    LET Free(u) == KeyOf(u) \notin AllSpentInMempool(pool)
    IN SelectSeq(get_utxos(store, sender), Free)

\* the loop without its break: every offered UTXO is taken
SelectUtxos_TakesAll(avail, needed, selected, total) == selected \o avail

\* the loop of lines 81-85: append, add, break once the total reaches needed
RECURSIVE SelectUtxos(_, _, _, _)
SelectUtxos(avail, needed, selected, total) ==
    IF avail = <<>> THEN selected
    ELSE LET sel == Append(selected, Head(avail))
             tot == total + Head(avail).amount
         IN IF tot >= needed THEN sel
            ELSE SelectUtxos(Tail(avail), needed, sel, tot)

TxId(timestamp, random_suffix) == <<"tx", timestamp, random_suffix>>

\* the transaction built with a change output also when the change is zero
BuildTx_ZeroChange(selected, sender, recipient, amount, fee, tx_id, timestamp) ==
    [tx_id |-> tx_id,
     inputs |-> [i \in 1..Len(selected) |->
                   [prev_tx |-> selected[i].tx_id, index |-> selected[i].index,
                    owner |-> sender]],
     outputs |-> <<[amount |-> amount, address |-> recipient],
                   [amount |-> SumAmounts(selected) - amount - fee,
                    address |-> sender]>>,
     timestamp |-> timestamp,
     status |-> "pending"]

BuildTx(selected, sender, recipient, amount, fee, tx_id, timestamp) ==
    LET change == SumAmounts(selected) - amount - fee
    IN [tx_id |-> tx_id,
        inputs |-> [i \in 1..Len(selected) |->
                      [prev_tx |-> selected[i].tx_id, index |-> selected[i].index,
                       owner |-> sender]],
        outputs |-> <<[amount |-> amount, address |-> recipient]>> \o
                    (IF change > 0 THEN <<[amount |-> change, address |-> sender]>>
                     ELSE <<>>),
        timestamp |-> timestamp,
        status |-> "pending"]

\* a return value that always reports success
Outcome_AlwaysOk(op, ok, reason) == [op |-> op, ok |-> TRUE, reason |-> reason]

Outcome(op, ok, reason) == [op |-> op, ok |-> ok, reason |-> reason]

INSUFFICIENT_FUNDS == "Insufficient funds"

\* what create_transaction computes from the store and the pool it reads:
\* the inputs it selected, the transaction it built, and what it returns
create_transaction(store, pool, sender, recipient, amount, fee, timestamp, random_suffix) ==
    LET selected == SelectUtxos(available_utxos(store, pool, sender),
                                amount + fee, <<>>, 0)
        tx == BuildTx(selected, sender, recipient, amount, fee,
                      TxId(timestamp, random_suffix), timestamp)
        v == validate_transaction(store, pool, tx)
    IN IF SumAmounts(selected) < amount + fee
       THEN [ok |-> FALSE, reason |-> INSUFFICIENT_FUNDS,
             selected |-> selected, tx |-> tx]
       ELSE IF ~v.ok
       THEN [ok |-> FALSE, reason |-> v.reason, selected |-> selected, tx |-> tx]
       ELSE [ok |-> TRUE, reason |-> "Transaction created and added to mempool",
             selected |-> selected, tx |-> tx]

CreateTransaction(sender, recipient, amount, fee, random_suffix) ==
    LET c == create_transaction(utxos, mempool, sender, recipient, amount, fee,
                                now, random_suffix)
    IN /\ Len(mempool) < MaxMempool
       /\ mempool' = IF c.ok THEN Append(mempool, c.tx) ELSE mempool
       /\ result' = Outcome("create", c.ok, c.reason)
       /\ UNCHANGED <<utxos, chain, now, genesis, mining, observed>>
       /\ UNCHANGED coreVars

(***************************************************************************)
(* BitcoinService.mine_block                                               *)
(***************************************************************************)
\* FeeOf with the outputs left out of the subtraction
FeeOf_IgnoresOutputs(store, tx) ==
    LET RECURSIVE Acc(_)
        Acc(i) == IF i = 0 THEN 0
                  ELSE Acc(i - 1) +
                       (IF HasUtxo(store, InpKey(tx.inputs[i]))
                        THEN get_utxo(store, InpKey(tx.inputs[i])).amount ELSE 0)
    IN Acc(Len(tx.inputs))

\* lines 140-145: the fee of a pending transaction, absent inputs count 0
FeeOf(store, tx) ==
    LET RECURSIVE Acc(_)
        Acc(i) == IF i = 0 THEN 0
                  ELSE Acc(i - 1) +
                       (IF HasUtxo(store, InpKey(tx.inputs[i]))
                        THEN get_utxo(store, InpKey(tx.inputs[i])).amount ELSE 0)
    IN Acc(Len(tx.inputs)) - SumAmounts(tx.outputs)

\* lines 129-146: the loop runs over the list read at line 119, while every
\* validation reads the pool as the removals so far have left it
RECURSIVE Revalidate(_, _, _, _)
Revalidate(store, todo, pool, tx_fees) ==
    IF todo = <<>> THEN [pool |-> pool, tx_fees |-> tx_fees]
    ELSE LET tx == Head(todo)
         IN IF ~validate_transaction(store, pool, tx).ok
            THEN Revalidate(store, Tail(todo),
                            remove_from_mempool(pool, tx.tx_id), tx_fees)
            ELSE Revalidate(store, Tail(todo), pool,
                            Append(tx_fees, [tx |-> tx, fee |-> FeeOf(store, tx)]))

\* list.sort(key=fee, reverse=True): descending and stable
RECURSIVE InsertByFee(_, _)
InsertByFee(sorted, e) ==
    IF sorted = <<>> THEN <<e>>
    ELSE IF Head(sorted).fee >= e.fee
         THEN <<Head(sorted)>> \o InsertByFee(Tail(sorted), e)
         ELSE <<e>> \o sorted

\* the list left in the order it came in
SortByFeeDesc_Unsorted(s) == s

RECURSIVE SortByFeeDesc(_)
SortByFeeDesc(s) ==
    IF s = <<>> THEN <<>>
    ELSE InsertByFee(SortByFeeDesc(SubSeq(s, 1, Len(s) - 1)), s[Len(s)])

\* the fee of the first selected transaction only
SumFees_Head(s) == IF s = <<>> THEN 0 ELSE Head(s).fee

RECURSIVE SumFees(_)
SumFees(s) == IF s = <<>> THEN 0 ELSE Head(s).fee + SumFees(Tail(s))

RemoveInputs(store, tx) ==
    LET RECURSIVE Go(_, _)
        Go(st, i) == IF i > Len(tx.inputs) THEN st
                     ELSE Go(remove_utxo(st, InpKey(tx.inputs[i])), i + 1)
    IN Go(store, 1)

AddOutputs(store, tx) ==
    LET RECURSIVE Go(_, _)
        Go(st, i) == IF i > Len(tx.outputs) THEN st
                     ELSE Go(add_utxo(st, [tx_id |-> tx.tx_id, index |-> i - 1,
                                           amount |-> tx.outputs[i].amount,
                                           owner |-> tx.outputs[i].address]), i + 1)
    IN Go(store, 1)

\* lines 192-197
RECURSIVE Commit(_, _, _)
Commit(store, pool, selected_txs) ==
    IF selected_txs = <<>> THEN [store |-> store, pool |-> pool]
    ELSE LET tx == Head(selected_txs)
         IN Commit(AddOutputs(RemoveInputs(store, tx), tx),
                   remove_from_mempool(pool, tx.tx_id), Tail(selected_txs))

CoinbaseId(block_num, timestamp) == <<"coinbase", block_num, timestamp>>

BlockHash(block_num, miner_address, ntx, timestamp) ==
    <<"block", block_num, miner_address, ntx, timestamp>>

BuildBlock(c, miner_address, selected, timestamp) ==
    LET view == get_blockchain(c)
        prev_hash == IF view # <<>> THEN view[Len(view)].hash ELSE GENESIS_HASH
        block_num == Len(view) + 1
        total_fees == SumFees(selected)
        coinbase_tx == [tx_id |-> CoinbaseId(block_num, timestamp),
                        inputs |-> <<>>,
                        outputs |-> <<[amount |-> total_fees, address |-> miner_address]>>,
                        timestamp |-> timestamp,
                        status |-> "confirmed"]
        final_txs == [i \in 1..Len(selected) |-> selected[i].tx] \o <<coinbase_tx>>
    IN [block_number |-> block_num,
        previous_hash |-> prev_hash,
        miner |-> miner_address,
        transactions |-> final_txs,
        total_fees |-> total_fees,
        timestamp |-> timestamp,
        hash |-> BlockHash(block_num, miner_address, Len(final_txs), timestamp)]

mine_block(miner_address, num_txs) ==
    LET rv == Revalidate(utxos, mempool, mempool, <<>>)
        selected == PySlice(SortByFeeDesc(rv.tx_fees), num_txs)
        selected_txs == [i \in 1..Len(selected) |-> selected[i].tx]
        block == BuildBlock(chain, miner_address, selected, now)
        done == Commit(utxos, rv.pool, selected_txs)
        coinbase == block.transactions[Len(block.transactions)]
    IN /\ IF mempool = <<>>
          THEN /\ result' = Outcome("mine", FALSE, "No transactions in mempool")
               /\ UNCHANGED <<utxos, mempool, chain>>
          ELSE IF selected = <<>>
          THEN /\ result' = Outcome("mine", FALSE, "No valid transactions to mine")
               /\ mempool' = rv.pool
               /\ UNCHANGED <<utxos, chain>>
          ELSE /\ utxos' = add_utxo(done.store,
                                    [tx_id |-> coinbase.tx_id, index |-> 0,
                                     amount |-> block.total_fees,
                                     owner |-> miner_address])
               /\ mempool' = done.pool
               /\ chain' = add_block(chain, block)
               /\ result' = Outcome("mine", TRUE, "Mined block")
       /\ UNCHANGED <<now, genesis, mining, observed>>
       /\ UNCHANGED coreVars

\* mine_block while the chain is shorter than MaxBlocks
MineBlock(miner_address, num_txs) ==
    Len(chain) < MaxBlocks /\ mine_block(miner_address, num_txs)

(***************************************************************************)
(* BitcoinService.init_genesis over InMemoryDatabase.reset_system          *)
(***************************************************************************)
GenesisUtxos(allocations) ==
    [i \in 1..Len(allocations) |->
        [tx_id |-> GENESIS_ID, index |-> i - 1,
         amount |-> allocations[i].amount, owner |-> allocations[i].owner]]

\* init_genesis without the clearing of the mempool
InitGenesis_KeepsMempool(allocations) ==
    /\ utxos' = GenesisUtxos(allocations)
    /\ chain' = <<>>
    /\ genesis' = GenesisUtxos(allocations)
    /\ result' = Outcome("genesis", TRUE, "System reset with new genesis state")
    /\ UNCHANGED <<mempool, now, mining, observed>>
    /\ UNCHANGED coreVars

InitGenesis(allocations) ==
    /\ utxos' = GenesisUtxos(allocations)
    /\ mempool' = <<>>
    /\ chain' = <<>>
    /\ genesis' = GenesisUtxos(allocations)
    /\ result' = Outcome("genesis", TRUE, "System reset with new genesis state")
    /\ UNCHANGED <<now, mining, observed>>
    /\ UNCHANGED coreVars

\* the wall clock read by int(time.time() * 1000)
Tick ==
    /\ now < MaxTime
    /\ now' = now + 1
    /\ UNCHANGED <<utxos, mempool, chain, genesis, result, mining, observed>>
    /\ UNCHANGED coreVars

\* the allocations offered to init_genesis: a dict, one entry per owner
Allocations ==
    {<<[owner |-> "Alice", amount |-> 3]>>,
     <<[owner |-> "Alice", amount |-> 3], [owner |-> "Bob", amount |-> 2]>>}

\* the requests offered to create_transaction
Request(sender, recipient, amount, fee) ==
    [sender |-> sender, recipient |-> recipient, amount |-> amount, fee |-> fee]
Requests ==
    {Request("Alice", "Bob", 2, 1), Request("Alice", "Bob", 1, 0),
     Request("Bob", "Alice", 1, 1),
     Request("Miner", "Alice", 0, 0), Request("Alice", "Miner", -1, 1)}

InitApi ==
    /\ utxos = <<>>
    /\ mempool = <<>>
    /\ chain = <<>>
    /\ now = 0
    /\ genesis = <<>>
    /\ result = Outcome("init", TRUE, "")
    /\ mining = [t \in Threads |-> Idle]
    /\ observed = NothingRead
    /\ utxo_set = <<>>
    /\ transactions = <<>>
    /\ spent_utxos = {}
    /\ block_counter = 0
    /\ committed = {}
    /\ ret = Outcome("init", TRUE, "")

NextApi ==
    \/ \E allocations \in Allocations : InitGenesis(allocations)
    \/ \E r \in Requests, random_suffix \in Suffixes :
          CreateTransaction(r.sender, r.recipient, r.amount, r.fee, random_suffix)
    \/ \E miner_address \in Miners, num_txs \in NumTxsChoices :
          MineBlock(miner_address, num_txs)
    \/ Tick

SpecApi == InitApi /\ [][NextApi]_vars

\* the service driven by transfers that all pay a fee, for the accounting of
\* the supply over several blocks
SupplyRequests == {Request("Alice", "Bob", 2, 1), Request("Bob", "Alice", 1, 1)}

NextSupply ==
    \/ \E allocations \in Allocations : InitGenesis(allocations)
    \/ \E r \in SupplyRequests, random_suffix \in Suffixes :
          CreateTransaction(r.sender, r.recipient, r.amount, r.fee, random_suffix)
    \/ \E miner_address \in Miners, num_txs \in NumTxsChoices :
          MineBlock(miner_address, num_txs)
    \/ Tick

SpecSupply == InitApi /\ [][NextSupply]_vars

(***************************************************************************)
(* The console engine of src/src.                                          *)
(* UTXOManager: utxo_set, a dict from (tx_id, index) to amount and owner.  *)
(***************************************************************************)
um_exists(store, k) == \E i \in 1..Len(store) : KeyOf(store[i]) = k

um_get_utxo(store, k) == store[CHOOSE i \in 1..Len(store) : KeyOf(store[i]) = k]

um_add_utxo(store, tx_id, index, amount, owner) ==
    LET u == [tx_id |-> tx_id, index |-> index, amount |-> amount, owner |-> owner]
    IN IF um_exists(store, <<tx_id, index>>)
       THEN [i \in 1..Len(store) |->
                IF KeyOf(store[i]) = <<tx_id, index>> THEN u ELSE store[i]]
       ELSE Append(store, u)

um_remove_utxo(store, k) ==
    LET Keep(u) == KeyOf(u) # k IN SelectSeq(store, Keep)

um_get_balance(store, owner) ==
    LET Mine(u) == u.owner = owner IN SumAmounts(SelectSeq(store, Mine))

\* block.mine_block, lines 85-86: the inputs of tx leave the store
um_remove_inputs(store, tx) ==
    LET RECURSIVE Rem(_, _)
        Rem(st, i) == IF i > Len(tx.inputs) THEN st
                      ELSE Rem(um_remove_utxo(st, InpKey(tx.inputs[i])), i + 1)
    IN Rem(store, 1)

\* block.mine_block, lines 89-95: the outputs of tx enter the store
um_add_outputs(store, tx) ==
    LET RECURSIVE Add(_, _)
        Add(st, i) == IF i > Len(tx.outputs) THEN st
                      ELSE Add(um_add_utxo(st, tx.tx_id, i - 1,
                                           tx.outputs[i].amount,
                                           tx.outputs[i].address), i + 1)
    IN Add(store, 1)

\* Transaction.calculate_fee: inputs absent from the store count 0
calculate_fee(store, tx) ==
    LET RECURSIVE Acc(_)
        Acc(i) == IF i = 0 THEN 0
                  ELSE Acc(i - 1) +
                       (IF um_exists(store, InpKey(tx.inputs[i]))
                        THEN um_get_utxo(store, InpKey(tx.inputs[i])).amount ELSE 0)
    IN Acc(Len(tx.inputs)) - SumAmounts(tx.outputs)

(***************************************************************************)
(* TransactionValidator.validate_transaction, called with a mempool        *)
(***************************************************************************)
\* Underfunded that also turns away a fee of exactly zero
Underfunded_ZeroFee(total_input, total_output) == total_input <= total_output

\* Rule 3 of the validator: Sum(inputs) >= Sum(outputs) must hold
Underfunded(total_input, total_output) == total_input < total_output

\* the validator with its checks in the order its docstring numbers them:
\* existence, duplicate input, balance, negative output, mempool conflict
Validator_validate_transaction_DocOrder(store, spent, tx) ==
    LET nIn == Len(tx.inputs)
        negOut == {i \in 1..Len(tx.outputs) : tx.outputs[i].amount < 0}
        dupIn == {i \in 1..nIn :
                    \E j \in 1..(i - 1) : InpKey(tx.inputs[j]) = InpKey(tx.inputs[i])}
        badIn == {i \in 1..nIn :
                    \/ ~um_exists(store, InpKey(tx.inputs[i]))
                    \/ um_get_utxo(store, InpKey(tx.inputs[i])).owner # tx.inputs[i].owner}
        firstBad == CHOOSE i \in badIn : \A j \in badIn : i <= j
        total_input == calculate_fee(store, tx) + SumAmounts(tx.outputs)
        total_output == SumAmounts(tx.outputs)
    IN  IF badIn # {} THEN
            IF ~um_exists(store, InpKey(tx.inputs[firstBad]))
            THEN Verdict(FALSE, MISSING_UTXO, 0)
            ELSE Verdict(FALSE, OWNER_MISMATCH, 0)
        ELSE IF dupIn # {} THEN Verdict(FALSE, DUPLICATE_INPUT, 0)
        ELSE IF total_input < total_output
            THEN Verdict(FALSE, INSUFFICIENT_INPUT, 0)
        ELSE IF negOut # {} THEN Verdict(FALSE, NEGATIVE_OUTPUT, 0)
        ELSE IF InputKeys(tx) \cap spent # {}
            THEN Verdict(FALSE, MEMPOOL_CONFLICT, 0)
        ELSE Verdict(TRUE, "Valid", total_input - total_output)

\* validator.validate_transaction, lines 30-78: negative output, duplicate
\* input, existence and ownership input by input, mempool conflict, balance
Validator_validate_transaction(store, spent, tx) ==
    LET nIn == Len(tx.inputs)
        negOut == {i \in 1..Len(tx.outputs) : tx.outputs[i].amount < 0}
        dupIn == {i \in 1..nIn :
                    \E j \in 1..(i - 1) : InpKey(tx.inputs[j]) = InpKey(tx.inputs[i])}
        badIn == {i \in 1..nIn :
                    \/ ~um_exists(store, InpKey(tx.inputs[i]))
                    \/ um_get_utxo(store, InpKey(tx.inputs[i])).owner # tx.inputs[i].owner}
        firstBad == CHOOSE i \in badIn : \A j \in badIn : i <= j
        total_input == calculate_fee(store, tx) + SumAmounts(tx.outputs)
        total_output == SumAmounts(tx.outputs)
    IN  IF negOut # {} THEN Verdict(FALSE, NEGATIVE_OUTPUT, 0)
        ELSE IF dupIn # {} THEN Verdict(FALSE, DUPLICATE_INPUT, 0)
        ELSE IF badIn # {} THEN
            IF ~um_exists(store, InpKey(tx.inputs[firstBad]))
            THEN Verdict(FALSE, MISSING_UTXO, 0)
            ELSE Verdict(FALSE, OWNER_MISMATCH, 0)
        ELSE IF InputKeys(tx) \cap spent # {}
            THEN Verdict(FALSE, MEMPOOL_CONFLICT, 0)
        ELSE IF Underfunded(total_input, total_output)
            THEN Verdict(FALSE, INSUFFICIENT_INPUT, 0)
        ELSE Verdict(TRUE, "Valid", total_input - total_output)

(***************************************************************************)
(* Mempool                                                                 *)
(***************************************************************************)
FirstWithId(pool, tx_id) ==
    CHOOSE i \in 1..Len(pool) :
        pool[i].tx_id = tx_id /\ \A j \in 1..(i - 1) : pool[j].tx_id # tx_id

\* a remove_transaction that pops the entry and keeps its keys tracked
Mempool_remove_transaction_KeepsKeys(pool, spent, tx_id) ==
    IF \E i \in 1..Len(pool) : pool[i].tx_id = tx_id
    THEN LET i == FirstWithId(pool, tx_id)
         IN [transactions |-> SubSeq(pool, 1, i - 1) \o SubSeq(pool, i + 1, Len(pool)),
             spent_utxos |-> spent,
             found |-> TRUE]
    ELSE [transactions |-> pool, spent_utxos |-> spent, found |-> FALSE]

\* Mempool.remove_transaction: pops the first entry carrying tx_id and
\* discards its input keys
Mempool_remove_transaction(pool, spent, tx_id) ==
    IF \E i \in 1..Len(pool) : pool[i].tx_id = tx_id
    THEN LET i == FirstWithId(pool, tx_id)
         IN [transactions |-> SubSeq(pool, 1, i - 1) \o SubSeq(pool, i + 1, Len(pool)),
             spent_utxos |-> spent \ InputKeys(pool[i]),
             found |-> TRUE]
    ELSE [transactions |-> pool, spent_utxos |-> spent, found |-> FALSE]

\* the scan of lines 127-134: the first entry with the strictly lowest fee
MinFeeIndex(store, pool) ==
    CHOOSE i \in 1..Len(pool) :
        /\ \A j \in 1..Len(pool) : calculate_fee(store, pool[i]) <= calculate_fee(store, pool[j])
        /\ \A j \in 1..(i - 1) : calculate_fee(store, pool[j]) > calculate_fee(store, pool[i])

\* _evict_lowest_fee that reports success and removes nothing
Mempool_evict_lowest_fee_KeepsAll(store, pool, spent) ==
    [transactions |-> pool, spent_utxos |-> spent, found |-> TRUE]

\* Mempool._evict_lowest_fee: False on an empty pool, else the entry found by
\* the scan is removed by its tx_id
Mempool_evict_lowest_fee(store, pool, spent) ==
    IF pool = <<>>
    THEN [transactions |-> pool, spent_utxos |-> spent, found |-> FALSE]
    ELSE [Mempool_remove_transaction(pool, spent, pool[MinFeeIndex(store, pool)].tx_id)
            EXCEPT !.found = TRUE]

\* the first n residents in insertion order, fees ignored
get_top_transactions_Unsorted(store, pool, n) == PySlice(pool, n)

\* Mempool.get_top_transactions
get_top_transactions(store, pool, n) ==
    LET tx_with_fees == [i \in 1..Len(pool) |->
                            [tx |-> pool[i], fee |-> calculate_fee(store, pool[i])]]
        top == PySlice(SortByFeeDesc(tx_with_fees), n)
    IN [i \in 1..Len(top) |-> top[i].tx]

\* MarkSpent that tracks nothing
MarkSpent_Nothing(spent, tx) == spent

\* lines 50-52: the inputs of an admitted transaction become tracked
MarkSpent(spent, tx) == spent \cup InputKeys(tx)

\* add_transaction that makes the outputs of an admitted transaction
\* spendable at once
AddTransaction_MintsOutputs(tx) ==
    LET full == Len(transactions) >= max_size
        ev == IF full THEN Mempool_evict_lowest_fee(utxo_set, transactions, spent_utxos)
              ELSE [transactions |-> transactions, spent_utxos |-> spent_utxos,
                    found |-> TRUE]
        v == Validator_validate_transaction(utxo_set, ev.spent_utxos, tx)
    IN /\ IF ~ev.found
          THEN /\ ret' = Outcome("add", FALSE, "Mempool full and cannot evict lower fee transactions")
               /\ UNCHANGED <<transactions, spent_utxos, utxo_set>>
          ELSE IF ~v.ok
          THEN /\ ret' = Outcome("add", FALSE, v.reason)
               /\ transactions' = ev.transactions
               /\ spent_utxos' = ev.spent_utxos
               /\ UNCHANGED utxo_set
          ELSE /\ ret' = Outcome("add", TRUE, v.reason)
               /\ transactions' = Append(ev.transactions, tx)
               /\ spent_utxos' = MarkSpent(ev.spent_utxos, tx)
               /\ utxo_set' = um_add_outputs(utxo_set, tx)
       /\ UNCHANGED <<block_counter, committed>>
       /\ UNCHANGED apiVars

\* Mempool.add_transaction
AddTransaction(tx) ==
    LET full == Len(transactions) >= max_size
        ev == IF full THEN Mempool_evict_lowest_fee(utxo_set, transactions, spent_utxos)
              ELSE [transactions |-> transactions, spent_utxos |-> spent_utxos,
                    found |-> TRUE]
        v == Validator_validate_transaction(utxo_set, ev.spent_utxos, tx)
    IN /\ IF ~ev.found
          THEN /\ ret' = Outcome("add", FALSE, "Mempool full and cannot evict lower fee transactions")
               /\ UNCHANGED <<transactions, spent_utxos>>
          ELSE IF ~v.ok
          THEN /\ ret' = Outcome("add", FALSE, v.reason)
               /\ transactions' = ev.transactions
               /\ spent_utxos' = ev.spent_utxos
          ELSE /\ ret' = Outcome("add", TRUE, v.reason)
               /\ transactions' = Append(ev.transactions, tx)
               /\ spent_utxos' = MarkSpent(ev.spent_utxos, tx)
       /\ UNCHANGED <<utxo_set, block_counter, committed>>
       /\ UNCHANGED apiVars

RemoveTransaction(tx_id) ==
    LET r == Mempool_remove_transaction(transactions, spent_utxos, tx_id)
    IN /\ transactions' = r.transactions
       /\ spent_utxos' = r.spent_utxos
       /\ ret' = Outcome("remove", r.found, "")
       /\ UNCHANGED <<utxo_set, block_counter, committed>>
       /\ UNCHANGED apiVars

\* Mempool.clear
Clear ==
    /\ transactions' = <<>>
    /\ spent_utxos' = {}
    /\ ret' = Outcome("clear", TRUE, "")
    /\ UNCHANGED <<utxo_set, block_counter, committed>>
    /\ UNCHANGED apiVars

\* a validation that marks the inputs of an accepted transaction as spent
ValidateTransaction_Marks(tx) ==
    /\ LET v == Validator_validate_transaction(utxo_set, spent_utxos, tx)
       IN /\ ret' = Outcome("validate", v.ok, v.reason)
          /\ spent_utxos' = IF v.ok THEN spent_utxos \cup InputKeys(tx)
                            ELSE spent_utxos
    /\ UNCHANGED <<utxo_set, transactions, block_counter, committed>>
    /\ UNCHANGED apiVars

\* a caller validating a transaction against the store and the mempool
ValidateTransaction(tx) ==
    /\ LET v == Validator_validate_transaction(utxo_set, spent_utxos, tx)
       IN ret' = Outcome("validate", v.ok, v.reason)
    /\ UNCHANGED <<utxo_set, transactions, spent_utxos, block_counter, committed>>
    /\ UNCHANGED apiVars

(***************************************************************************)
(* block.mine_block                                                        *)
(***************************************************************************)
\* Step 2, lines 79-98: fee against the store as the earlier transactions
\* of the batch have left it, then inputs out and outputs in
RECURSIVE ApplySelected(_, _, _)
ApplySelected(store, selected_txs, total_fees) ==
    IF selected_txs = <<>> THEN [store |-> store, total_fees |-> total_fees]
    ELSE LET tx == Head(selected_txs)
             fee == calculate_fee(store, tx)
         IN ApplySelected(um_add_outputs(um_remove_inputs(store, tx), tx),
                          Tail(selected_txs), total_fees + fee)

\* Step 4, lines 112-113
RECURSIVE RemoveMined(_, _, _)
RemoveMined(pool, spent, selected_txs) ==
    IF selected_txs = <<>> THEN [transactions |-> pool, spent_utxos |-> spent]
    ELSE LET r == Mempool_remove_transaction(pool, spent, Head(selected_txs).tx_id)
         IN RemoveMined(r.transactions, r.spent_utxos, Tail(selected_txs))

CoreCoinbaseId(block_number) == <<"coinbase", block_number, 0>>

\* the Block of lines 74 and 98-109: coinbase_tx is None (here <<>>) and
\* total_fees stays 0 unless the fees summed are positive
CoreBlock(miner_address, block_number, selected_txs, total_fees) ==
    [block_number |-> block_number,
     miner |-> miner_address,
     transactions |-> selected_txs,
     total_fees |-> IF total_fees > 0 THEN total_fees ELSE 0,
     coinbase_tx |-> IF total_fees > 0
                     THEN <<[tx_id |-> CoreCoinbaseId(block_number),
                             inputs |-> <<>>,
                             outputs |-> <<[amount |-> total_fees,
                                            address |-> miner_address]>>]>>
                     ELSE <<>>]

CoreMineBlock(miner_address, num_txs) ==
    LET selected_txs == get_top_transactions(utxo_set, transactions, num_txs)
        applied == ApplySelected(utxo_set, selected_txs, 0)
        rm == RemoveMined(transactions, spent_utxos, selected_txs)
    IN /\ block_counter < MaxBlocks
       /\ IF selected_txs = <<>>
          THEN /\ ret' = Outcome("mine", FALSE, "No transactions in mempool to mine")
               /\ UNCHANGED <<utxo_set, transactions, spent_utxos, block_counter, committed>>
          ELSE /\ block_counter' = block_counter + 1
               /\ utxo_set' = IF applied.total_fees > 0
                              THEN um_add_utxo(applied.store,
                                               CoreCoinbaseId(block_counter + 1), 0,
                                               applied.total_fees, miner_address)
                              ELSE applied.store
               /\ transactions' = rm.transactions
               /\ spent_utxos' = rm.spent_utxos
               /\ committed' = committed \cup
                               {selected_txs[i].tx_id : i \in 1..Len(selected_txs)}
               /\ ret' = [op |-> "mine", ok |-> TRUE,
                          reason |-> "Block mined successfully",
                          block |-> CoreBlock(miner_address, block_counter + 1,
                                              selected_txs, applied.total_fees)]
       /\ UNCHANGED apiVars

(***************************************************************************)
(* The transactions a caller of the console engine may construct.          *)
(***************************************************************************)
CoreIds == {TxId(0, RandLo), TxId(1, RandLo)}
CoreIn(prev_tx, index, owner) == [prev_tx |-> prev_tx, index |-> index, owner |-> owner]
CoreInputSeqs ==
    {<<>>,
     <<CoreIn(GENESIS_ID, 0, "Alice")>>,
     <<CoreIn(GENESIS_ID, 0, "Bob")>>,
     <<CoreIn(GENESIS_ID, 1, "Bob")>>,
     <<CoreIn(TxId(0, RandLo), 0, "Bob")>>,
     <<CoreIn(GENESIS_ID, 0, "Alice"), CoreIn(GENESIS_ID, 0, "Alice")>>,
     <<CoreIn(GENESIS_ID, 0, "Alice"), CoreIn(GENESIS_ID, 1, "Bob")>>,
     <<CoreIn(TxId(0, RandLo), 0, "Bob"), CoreIn(GENESIS_ID, 0, "Bob")>>,
     <<CoreIn(GENESIS_ID, 0, "Bob"), CoreIn(TxId(0, RandLo), 0, "Bob")>>}
CoreOutputSeqs ==
    {<<[amount |-> a, address |-> "Bob"]>> : a \in {-1, 2, 3}}
CoreTxs ==
    {[tx_id |-> id, inputs |-> ins, outputs |-> outs] :
        id \in CoreIds, ins \in CoreInputSeqs, outs \in CoreOutputSeqs}

\* BitcoinSimulator._initialize_genesis, with two owners
CoreGenesis ==
    um_add_utxo(um_add_utxo(<<>>, GENESIS_ID, 0, 3, "Alice"), GENESIS_ID, 1, 2, "Bob")

InitCore ==
    /\ utxo_set = CoreGenesis
    /\ transactions = <<>>
    /\ spent_utxos = {}
    /\ block_counter = 0
    /\ committed = {}
    /\ ret = Outcome("init", TRUE, "")
    /\ utxos = <<>>
    /\ mempool = <<>>
    /\ chain = <<>>
    /\ now = 0
    /\ genesis = <<>>
    /\ result = Outcome("init", TRUE, "")
    /\ mining = [t \in Threads |-> Idle]
    /\ observed = NothingRead

NextCore ==
    \/ \E tx \in CoreTxs : AddTransaction(tx)
    \/ \E tx_id \in CoreIds : RemoveTransaction(tx_id)
    \/ \E tx \in CoreTxs : ValidateTransaction(tx)
    \/ \E num_txs \in NumTxsChoices : CoreMineBlock("Miner", num_txs)
    \/ Clear

SpecCore == InitCore /\ [][NextCore]_vars

(***************************************************************************)
(* What the appended blocks record.                                        *)
(***************************************************************************)
\* all transactions of all blocks, in chain order
RECURSIVE ChainTxs(_)
ChainTxs(c) == IF c = <<>> THEN <<>> ELSE Head(c).transactions \o ChainTxs(Tail(c))

OutputKeysSeq(tx) == [i \in 1..Len(tx.outputs) |-> <<tx.tx_id, i - 1>>]
InputKeysSeq(tx) == [i \in 1..Len(tx.inputs) |-> InpKey(tx.inputs[i])]

\* the keys created, and the keys consumed, by the committed transactions
RECURSIVE CreatedKeys(_)
CreatedKeys(txs) ==
    IF txs = <<>> THEN <<>> ELSE OutputKeysSeq(Head(txs)) \o CreatedKeys(Tail(txs))

RECURSIVE ConsumedKeys(_)
ConsumedKeys(txs) ==
    IF txs = <<>> THEN <<>> ELSE InputKeysSeq(Head(txs)) \o ConsumedKeys(Tail(txs))

NoDuplicates(s) == \A i, j \in 1..Len(s) : s[i] = s[j] => i = j

RECURSIVE SumTotalFees(_)
SumTotalFees(c) == IF c = <<>> THEN 0 ELSE Head(c).total_fees + SumTotalFees(Tail(c))

StoreKeys(store) == {KeyOf(store[i]) : i \in 1..Len(store)}

\* C1 (as stated): the UTXO total is the genesis total plus the fees minted
\* as coinbase outputs
C1_SupplyIsGenesisPlusFees ==
    TotalSupply(utxos) = TotalSupply(genesis) + SumTotalFees(chain)

\* C1 (amended): coinbase fees are not new supply. The UTXO total never
\* exceeds the genesis total, and it equals the genesis total as long as no
\* two committed outputs were written under the same key.
C1_SupplyBoundedByGenesis ==
    /\ TotalSupply(utxos) <= TotalSupply(genesis)
    /\ NoDuplicates(CreatedKeys(ChainTxs(chain)))
         => TotalSupply(utxos) = TotalSupply(genesis)

C1_Witness ==
    /\ Len(chain) = 2
    /\ SumTotalFees(chain) > 0
    /\ result.op = "mine" /\ result.ok

\* C2: over all appended blocks no UTXO key is created twice and no key is
\* consumed by two committed transactions
C2_KeysCreatedAndSpentOnce ==
    /\ NoDuplicates(CreatedKeys(ChainTxs(chain)))
    /\ NoDuplicates(ConsumedKeys(ChainTxs(chain)))

\* C5: a key is in the store iff it was installed at genesis or created by a
\* committed transaction, and no committed transaction lists it as an input
C5_PresentIffUnspent ==
    \A k \in StoreKeys(utxos) \cup StoreKeys(genesis)
             \cup Range(CreatedKeys(ChainTxs(chain))) :
        k \in StoreKeys(utxos) <=>
            /\ k \in StoreKeys(genesis) \cup Range(CreatedKeys(ChainTxs(chain)))
            /\ k \notin Range(ConsumedKeys(ChainTxs(chain)))

(***************************************************************************)
(* The transfer-then-mine scenario: one create_transaction on a fresh      *)
(* genesis followed by one mine_block, over all parties and amounts.       *)
(* Amounts are in units of 0.001, so 50.0 is 50000 and 0.001 is 1.         *)
(***************************************************************************)
FlowAllocations ==
    Allocations \cup
    {<<[owner |-> "Alice", amount |-> 50000], [owner |-> "Bob", amount |-> 30000]>>}
FlowAmounts == Amounts \cup {10000}
FlowNumTxs == {1, 2, 5}

Fresh == utxos = genesis /\ mempool = <<>> /\ chain = <<>>

FlowCreate(sender, recipient, amount, fee, random_suffix) ==
    Fresh /\ CreateTransaction(sender, recipient, amount, fee, random_suffix)

FlowMine(miner_address, num_txs) ==
    chain = <<>> /\ MineBlock(miner_address, num_txs)

NextFlow ==
    \/ \E allocations \in FlowAllocations : InitGenesis(allocations)
    \/ \E sender \in Addr, recipient \in Addr, amount \in FlowAmounts, fee \in Fees,
          random_suffix \in Suffixes :
          FlowCreate(sender, recipient, amount, fee, random_suffix)
    \/ \E miner_address \in Addr, num_txs \in FlowNumTxs :
          FlowMine(miner_address, num_txs)
    \/ Tick

SpecFlow == InitApi /\ [][NextFlow]_vars

\* the state create_transaction(s, r, a, f) leaves when it succeeds on a
\* fresh genesis
AfterCreate(s, r, a, f) ==
    /\ utxos = genesis /\ chain = <<>> /\ genesis # <<>>
    /\ get_balance(genesis, s) >= a + f
    /\ \E x \in Suffixes, t \in 0..MaxTime :
         mempool = <<BuildTx(SelectUtxos(available_utxos(genesis, <<>>, s),
                                         a + f, <<>>, 0),
                             s, r, a, f, TxId(t, x), t)>>

FlowCreateOk(s, r, a, f) ==
    \A x \in Suffixes :
      (/\ Fresh /\ genesis # <<>>
       /\ get_balance(genesis, s) >= a + f
       /\ CreateTransaction(s, r, a, f, x))
        => (result'.ok /\ Len(mempool') = 1)

FlowMineOk(s, r, a, f, m) ==
    \A n \in FlowNumTxs :
      (AfterCreate(s, r, a, f) /\ MineBlock(m, n))
        => /\ result'.ok
           /\ get_balance(utxos', s) = get_balance(genesis, s) - (a + f)
           /\ get_balance(utxos', r) = get_balance(genesis, r) + a
           /\ get_balance(utxos', m) = f
           /\ mempool' = <<>>

\* C6 (as stated): for every sender S holding at least a+f, the transfer
\* succeeds, the mempool has one entry, and after mining S has lost a+f,
\* R has gained a, M holds f and the mempool is empty
C6_FlowAsStated ==
    [][\A s \in Addr, r \in Addr, m \in Addr, a \in FlowAmounts, f \in Fees :
         FlowCreateOk(s, r, a, f) /\ FlowMineOk(s, r, a, f, m)]_vars

\* C6 (amended): the same, for S, R and M pairwise distinct, M holding
\* nothing at genesis, a >= 0 and f >= 0
C6_Flow ==
    [][\A s \in Addr, r \in Addr, m \in Addr, a \in FlowAmounts, f \in Fees :
         (/\ s # r /\ s # m /\ r # m
          /\ get_balance(genesis, m) = 0
          /\ a >= 0 /\ f >= 0)
         => FlowCreateOk(s, r, a, f) /\ FlowMineOk(s, r, a, f, m)]_vars

\* the scenario of the specification: Alice 39.999, Bob 40.0, Miner 0.001
C6_Witness ==
    /\ result.op = "mine" /\ result.ok
    /\ Len(chain) = 1 /\ mempool = <<>>
    /\ get_balance(genesis, "Alice") = 50000 /\ get_balance(genesis, "Bob") = 30000
    /\ get_balance(utxos, "Alice") = 39999
    /\ get_balance(utxos, "Bob") = 40000
    /\ get_balance(utxos, "Miner") = 1

(***************************************************************************)
(* The five validation rules, stated on their own.                         *)
(***************************************************************************)
Rule1(tx) == \A i \in 1..Len(tx.outputs) : tx.outputs[i].amount >= 0

Rule2(tx) ==
    \A i, j \in 1..Len(tx.inputs) :
        InpKey(tx.inputs[i]) = InpKey(tx.inputs[j]) => i = j

Rule3(store, tx) ==
    \A i \in 1..Len(tx.inputs) :
        \E u \in Range(store) :
            KeyOf(u) = InpKey(tx.inputs[i]) /\ u.owner = tx.inputs[i].owner

\* no input key is claimed by a different pending transaction
Rule4(pool, tx) ==
    \A j \in 1..Len(pool) :
        pool[j] # tx => InputKeys(pool[j]) \cap InputKeys(tx) = {}

\* no input key is claimed by any resident transaction, tx itself included
Rule4Any(pool, tx) ==
    \A j \in 1..Len(pool) : InputKeys(pool[j]) \cap InputKeys(tx) = {}

\* no input key is claimed by a pending transaction with another tx_id
Rule4OtherId(pool, tx) ==
    \A j \in 1..Len(pool) :
        pool[j].tx_id # tx.tx_id => InputKeys(pool[j]) \cap InputKeys(tx) = {}

RECURSIVE InputAmount(_, _)
InputAmount(store, ins) ==
    IF ins = <<>> THEN 0
    ELSE (CHOOSE u \in Range(store) : KeyOf(u) = InpKey(Head(ins))).amount
         + InputAmount(store, Tail(ins))

Rule5(store, tx) == InputAmount(store, tx.inputs) >= SumAmounts(tx.outputs)

\* C3: no input key is referenced by two different resident transactions
C3_MempoolExclusive ==
    \A i, j \in 1..Len(transactions) :
        i # j => InputKeys(transactions[i]) \cap InputKeys(transactions[j]) = {}

C3_Witness ==
    /\ Len(transactions) = 2
    /\ \A i \in 1..2 : transactions[i].inputs # <<>>
    /\ block_counter >= 1
    /\ ret.op = "add" /\ ret.ok

\* C4: a transaction B claiming a UTXO that resident A claims, with a higher
\* fee than A, is rejected by add_transaction and A stays resident
C4_FirstSeenWins ==
    [][\A B \in CoreTxs : \A i \in 1..Len(transactions) :
          (/\ InputKeys(transactions[i]) \cap InputKeys(B) # {}
           /\ calculate_fee(utxo_set, B) > calculate_fee(utxo_set, transactions[i])
           /\ AddTransaction(B))
          => (~ret'.ok /\ transactions[i] \in Range(transactions'))]_vars

\* the checks that run before input k of tx is looked up all pass
EarlierChecksPass(store, tx, k) ==
    /\ Rule1(tx) /\ Rule2(tx)
    /\ \A i \in 1..(k - 1) :
         \E u \in Range(store) :
            KeyOf(u) = InpKey(tx.inputs[i]) /\ u.owner = tx.inputs[i].owner

SpendsOutputOf(tx, X) == {k \in 1..Len(tx.inputs) : tx.inputs[k].prev_tx = X.tx_id}

\* C7 (as stated): while tx_X is resident and not mined, every transaction
\* with an input (tx_X.tx_id, i) is rejected with the reason "does not exist"
C7_RejectedAsMissing ==
    \A j \in 1..Len(transactions) : \A tx \in CoreTxs :
        (transactions[j].tx_id \notin committed
         /\ SpendsOutputOf(tx, transactions[j]) # {})
        => LET v == Validator_validate_transaction(utxo_set, spent_utxos, tx)
           IN ~v.ok /\ v.reason = MISSING_UTXO

\* C7 (amended): such a transaction is always rejected, and the reason is
\* "does not exist" whenever no earlier check fails first (no negative
\* output, no duplicate input, no earlier input missing or mis-owned)
C7_UnconfirmedUnspendable ==
    \A j \in 1..Len(transactions) : \A tx \in CoreTxs :
        (transactions[j].tx_id \notin committed
         /\ SpendsOutputOf(tx, transactions[j]) # {})
        => LET v == Validator_validate_transaction(utxo_set, spent_utxos, tx)
           IN /\ ~v.ok
              /\ \A k \in SpendsOutputOf(tx, transactions[j]) :
                    /\ ~um_exists(utxo_set, InpKey(tx.inputs[k]))
                    /\ EarlierChecksPass(utxo_set, tx, k) => v.reason = MISSING_UTXO

C7_Witness ==
    /\ ret.op = "validate" /\ ~ret.ok /\ ret.reason = MISSING_UTXO
    /\ \E j \in 1..Len(transactions) :
         /\ transactions[j].tx_id = TxId(0, RandLo)
         /\ transactions[j].tx_id \notin committed

FiveRules(store, pool, tx, r4) ==
    Rule1(tx) /\ Rule2(tx) /\ Rule3(store, tx) /\ r4 /\ Rule5(store, tx)

RightFee(store, tx, v) ==
    v.ok => v.fee = InputAmount(store, tx.inputs) - SumAmounts(tx.outputs)

\* C8 (as stated): either validator accepts exactly when the five rules
\* hold, rule 4 being "no input key is claimed by a different pending
\* transaction", and the fee of an accepted transaction is inputs - outputs
C8_AcceptsIffRulesAsStated ==
    \A tx \in CoreTxs :
        LET vc == Validator_validate_transaction(utxo_set, spent_utxos, tx)
            va == validate_transaction(utxo_set, transactions, tx)
            rules == FiveRules(utxo_set, transactions, tx, Rule4(transactions, tx))
        IN /\ vc.ok <=> rules
           /\ va.ok <=> rules
           /\ RightFee(utxo_set, tx, vc) /\ RightFee(utxo_set, tx, va)

\* C8 (amended): the same with rule 4 as each validator applies it:
\* TransactionValidator rejects an input key claimed by any resident
\* transaction (the transaction itself when it is already resident), and
\* BitcoinService one claimed by a pending transaction with another tx_id
C8_AcceptsIffRules ==
    \A tx \in CoreTxs :
        LET vc == Validator_validate_transaction(utxo_set, spent_utxos, tx)
            va == validate_transaction(utxo_set, transactions, tx)
        IN /\ vc.ok <=> FiveRules(utxo_set, transactions, tx, Rule4Any(transactions, tx))
           /\ va.ok <=> FiveRules(utxo_set, transactions, tx, Rule4OtherId(transactions, tx))
           /\ RightFee(utxo_set, tx, vc) /\ RightFee(utxo_set, tx, va)

\* a zero-fee transaction has just been accepted next to a resident one
C8_Witness ==
    /\ ret.op = "add" /\ ret.ok
    /\ Len(transactions) = 2
    /\ calculate_fee(utxo_set, transactions[2]) = 0
    /\ transactions[2].inputs # <<>>

\* the reason each validator must give for tx, by the first violated rule
FirstViolation(store, tx, r4, v) ==
    IF ~Rule1(tx) THEN ~v.ok /\ v.reason = NEGATIVE_OUTPUT
    ELSE IF ~Rule2(tx) THEN ~v.ok /\ v.reason = DUPLICATE_INPUT
    ELSE IF ~Rule3(store, tx) THEN ~v.ok /\ v.reason \in {MISSING_UTXO, OWNER_MISMATCH}
    ELSE IF ~r4 THEN ~v.ok /\ v.reason = MEMPOOL_CONFLICT
    ELSE IF ~Rule5(store, tx) THEN ~v.ok /\ v.reason = INSUFFICIENT_INPUT
    ELSE v.ok

\* C9: the rules are checked in the order negative output, duplicate input,
\* existence/ownership, mempool conflict, balance, and the reason reported
\* is that of the first rule violated
C9_FirstViolatedRuleReported ==
    \A tx \in CoreTxs :
        /\ FirstViolation(utxo_set, tx, Rule4Any(transactions, tx),
                          Validator_validate_transaction(utxo_set, spent_utxos, tx))
        /\ FirstViolation(utxo_set, tx, Rule4OtherId(transactions, tx),
                          validate_transaction(utxo_set, transactions, tx))

\* a transaction with a negative output, a duplicated input that is also
\* claimed by a resident transaction, has been rejected for the output
C9_Witness ==
    /\ ret.op = "validate" /\ ~ret.ok /\ ret.reason = NEGATIVE_OUTPUT
    /\ \E tx \in CoreTxs :
         /\ ~Rule1(tx) /\ ~Rule2(tx) /\ ~Rule4Any(transactions, tx)
         /\ Validator_validate_transaction(utxo_set, spent_utxos, tx).reason
              = NEGATIVE_OUTPUT

ZeroInputOutputSeqs ==
    {<<>>} \cup {<<[amount |-> a, address |-> "Bob"]>> : a \in {0, 2}}
ZeroInputTxs ==
    {[tx_id |-> id, inputs |-> <<>>, outputs |-> outs] :
        id \in CoreIds, outs \in ZeroInputOutputSeqs}
ZeroTxs ==
    ZeroInputTxs \cup
    {[tx_id |-> TxId(0, RandLo), inputs |-> <<CoreIn(GENESIS_ID, 0, "Alice")>>,
      outputs |-> <<[amount |-> 2, address |-> "Bob"]>>]}

NextZero ==
    \/ \E tx \in ZeroTxs : AddTransaction(tx)
    \/ \E tx_id \in CoreIds : RemoveTransaction(tx_id)
    \/ \E tx \in ZeroTxs : ValidateTransaction(tx)
    \/ \E num_txs \in NumTxsChoices : CoreMineBlock("Miner", num_txs)

SpecZero == InitCore /\ [][NextZero]_vars

\* C11: both validators reject every transaction with zero inputs, and no
\* zero-input transaction is ever resident in the mempool
C11_ZeroInputRejected ==
    /\ \A tx \in ZeroInputTxs :
          tx.inputs = <<>>
          => /\ ~Validator_validate_transaction(utxo_set, spent_utxos, tx).ok
             /\ ~validate_transaction(utxo_set, transactions, tx).ok
    /\ \A i \in 1..Len(transactions) : transactions[i].inputs # <<>>

\* the pool without its entry at position i
WithoutEntry(pool, i) == SubSeq(pool, 1, i - 1) \o SubSeq(pool, i + 1, Len(pool))

\* C12: remove_transaction of an id that is not resident changes nothing and
\* reports nothing removed; for a resident id it removes that transaction
\* and releases exactly its input keys; a second removal of the same id
\* changes nothing
C12_RemoveIdempotent ==
    [][\A id \in CoreIds :
          RemoveTransaction(id)
          => LET resident == {i \in 1..Len(transactions) : transactions[i].tx_id = id}
                 again == Mempool_remove_transaction(transactions', spent_utxos', id)
             IN /\ resident = {}
                     => (UNCHANGED <<transactions, spent_utxos>> /\ ~ret'.ok)
                /\ resident # {}
                     => \E i \in resident :
                           /\ transactions' = WithoutEntry(transactions, i)
                           /\ spent_utxos' = spent_utxos \ InputKeys(transactions[i])
                /\ again.transactions = transactions'
                /\ again.spent_utxos = spent_utxos']_vars

\* C13: the number of resident transactions never exceeds max_size
C13_MempoolBounded == Len(transactions) <= max_size

\* after a block was mined the pool is full again and has just admitted a
\* transaction
C13_Witness ==
    /\ Len(transactions) = max_size
    /\ ret.op = "add" /\ ret.ok
    /\ block_counter >= 1

(***************************************************************************)
(* The service building transfers against a pool that holds pending        *)
(* transactions, before and after a first block.                           *)
(***************************************************************************)
PendingRequests ==
    {Request("Alice", "Bob", 1, 0), Request("Bob", "Alice", 1, 1),
     Request("Alice", "Bob", 2, 1), Request("Miner", "Alice", 0, 0)}

NextPending ==
    \/ \E allocations \in Allocations : InitGenesis(allocations)
    \/ \E r \in PendingRequests :
          CreateTransaction(r.sender, r.recipient, r.amount, r.fee, RandLo)
    \/ \E miner_address \in Miners, num_txs \in NumTxsChoices :
          FlowMine(miner_address, num_txs)
    \/ Tick

SpecPending == InitApi /\ [][NextPending]_vars

\* what create_transaction would do with request r in the current state
Created(r, random_suffix) ==
    create_transaction(utxos, mempool, r.sender, r.recipient, r.amount, r.fee,
                       now, random_suffix)

SelectedKeys(c) == {KeyOf(c.selected[i]) : i \in 1..Len(c.selected)}

\* the sender owns UTXOs and every one of them is claimed by a pending input
AllClaimed(sender) ==
    /\ get_utxos(utxos, sender) # <<>>
    /\ available_utxos(utxos, mempool, sender) = <<>>

\* C14 (as stated): create_transaction selects no UTXO that a pending input
\* references, answers "Insufficient funds" to a sender whose UTXOs are all
\* claimed, and is never rejected for a mempool conflict
C14_SelectsUnclaimedAsStated ==
    \A r \in PendingRequests, x \in Suffixes :
        LET c == Created(r, x)
        IN /\ SelectedKeys(c) \cap AllSpentInMempool(mempool) = {}
           /\ AllClaimed(r.sender) => (~c.ok /\ c.reason = INSUFFICIENT_FUNDS)
           /\ c.reason # MEMPOOL_CONFLICT

\* C14 (amended): the same, the "Insufficient funds" answer being for the
\* requests with amount + fee > 0
C14_SelectsUnclaimed ==
    \A r \in PendingRequests, x \in Suffixes :
        LET c == Created(r, x)
        IN /\ SelectedKeys(c) \cap AllSpentInMempool(mempool) = {}
           /\ (AllClaimed(r.sender) /\ r.amount + r.fee > 0)
                => (~c.ok /\ c.reason = INSUFFICIENT_FUNDS)
           /\ c.reason # MEMPOOL_CONFLICT

\* after a block, a sender with every UTXO claimed has just been refused
C14_Witness ==
    /\ result = Outcome("create", FALSE, INSUFFICIENT_FUNDS)
    /\ chain # <<>>
    /\ \E r \in PendingRequests : AllClaimed(r.sender) /\ r.amount + r.fee > 0

\* sel is the shortest prefix of listing whose running total reaches needed
ShortestPrefix(sel, listing, needed) ==
    \E k \in 1..Len(listing) :
        /\ sel = SubSeq(listing, 1, k)
        /\ SumAmounts(sel) >= needed
        /\ \A j \in 1..(k - 1) : SumAmounts(SubSeq(listing, 1, j)) < needed

\* the error is returned exactly when the unclaimed total is short, and
\* otherwise the selection is the shortest sufficient prefix of listing
SelectionOf(r, c, listing) ==
    LET needed == r.amount + r.fee
        short == SumAmounts(available_utxos(utxos, mempool, r.sender)) < needed
    IN /\ (~c.ok /\ c.reason = INSUFFICIENT_FUNDS) <=> short
       /\ ~short => ShortestPrefix(c.selected, listing, needed)

\* a create_transaction step that answers with the error leaves the mempool
ErrorAddsNothing ==
    \A r \in PendingRequests, x \in Suffixes :
        (/\ CreateTransaction(r.sender, r.recipient, r.amount, r.fee, x)
         /\ result' = Outcome("create", FALSE, INSUFFICIENT_FUNDS))
          => mempool' = mempool

\* C15 (as stated): for amount + fee > 0 the insufficient-funds error is
\* returned iff the sender's unclaimed total is below amount + fee, otherwise
\* the selection is the shortest prefix of the owner-filtered listing of the
\* store that reaches amount + fee; on the error the mempool is unchanged
C15_GreedyPrefixAsStated ==
    /\ [](\A r \in PendingRequests, x \in Suffixes :
            r.amount + r.fee > 0
              => SelectionOf(r, Created(r, x), get_utxos(utxos, r.sender)))
    /\ [][ErrorAddsNothing]_vars

\* C15 (amended): the same, the prefix being one of the owner-filtered
\* listing with the UTXOs claimed by pending transactions left out
C15_GreedyPrefix ==
    /\ [](\A r \in PendingRequests, x \in Suffixes :
            r.amount + r.fee > 0
              => SelectionOf(r, Created(r, x),
                             available_utxos(utxos, mempool, r.sender)))
    /\ [][ErrorAddsNothing]_vars

\* a transfer that needed two of the sender's UTXOs has just been built
C15_Witness ==
    /\ result.op = "create" /\ result.ok
    /\ mempool # <<>>
    /\ Len(mempool[Len(mempool)].inputs) = 2
    /\ Len(mempool[Len(mempool)].outputs) = 1

\* the transaction appended by a successful create_transaction step for r
BuiltAsRequested(r, c) ==
    LET tx == mempool'[Len(mempool')]
        change == SumAmounts(c.selected) - r.amount - r.fee
    IN /\ mempool' = Append(mempool, tx)
       /\ tx.status = "pending"
       /\ tx.outputs[1] = [amount |-> r.amount, address |-> r.recipient]
       /\ IF change > 0
          THEN tx.outputs = <<tx.outputs[1], [amount |-> change, address |-> r.sender]>>
          ELSE Len(tx.outputs) = 1
       /\ SumAmounts(c.selected) - SumAmounts(tx.outputs) = r.fee
       /\ FeeOf(utxos, tx) = r.fee

\* C16: for amount >= 0 and fee >= 0 a successfully built transaction has
\* one output of amount to the recipient, a change output to the sender iff
\* the change is strictly positive, a derived fee equal to the requested
\* fee, status pending, and the mempool grows by exactly that transaction
C16_BuiltTransaction ==
    [][\A r \in PendingRequests, x \in Suffixes :
         (/\ r.amount >= 0 /\ r.fee >= 0
          /\ result'.op = "create" /\ result'.ok
          /\ CreateTransaction(r.sender, r.recipient, r.amount, r.fee, x))
           => BuiltAsRequested(r, Created(r, x))]_vars

\* the pool holds a transfer built with change and then one built without
C16_Witness ==
    /\ result.op = "create" /\ result.ok
    /\ Len(mempool) = 2
    /\ Len(mempool[1].outputs) = 2 /\ mempool[1].outputs[2].amount > 0
    /\ Len(mempool[2].outputs) = 1 /\ Len(mempool[2].inputs) = 1

(***************************************************************************)
(* BitcoinService.mine_block: the state a block leaves behind              *)
(***************************************************************************)
\* lines 129-148: the pending transactions that pass re-validation, with
\* their fees, highest fee first
ValidByFee == SortByFeeDesc(Revalidate(utxos, mempool, mempool, <<>>).tx_fees)

\* lines 149-154: the transactions mine_block(miner, num_txs) selects
SelectedTxs(num_txs) ==
    LET selected == PySlice(ValidByFee, num_txs)
    IN [i \in 1..Len(selected) |-> selected[i].tx]

\* the valid transactions the slice of line 149 leaves out
UnselectedTxs(num_txs) ==
    LET selected == PySlice(ValidByFee, num_txs)
    IN [i \in 1..(Len(ValidByFee) - Len(selected)) |->
          ValidByFee[Len(selected) + i].tx]

\* the store, the pool and the chain after a block of selected_txs
MinedState(selected_txs, unselected_txs) ==
    /\ \A i \in 1..Len(selected_txs) :
          LET tx == selected_txs[i]
          IN /\ \A k \in InputKeys(tx) : ~HasUtxo(utxos', k)
             /\ \A o \in 1..Len(tx.outputs) :
                   /\ HasUtxo(utxos', <<tx.tx_id, o - 1>>)
                   /\ get_utxo(utxos', <<tx.tx_id, o - 1>>).amount = tx.outputs[o].amount
                   /\ get_utxo(utxos', <<tx.tx_id, o - 1>>).owner = tx.outputs[o].address
             /\ tx \notin Range(mempool')
    /\ \A i \in 1..Len(unselected_txs) : unselected_txs[i] \in Range(mempool')
    /\ \A u \in Range(utxos) :
          (\A i \in 1..Len(selected_txs) :
              /\ KeyOf(u) \notin InputKeys(selected_txs[i])
              /\ u.tx_id # selected_txs[i].tx_id)
            => u \in Range(utxos')
    /\ Len(chain') = Len(chain) + 1
    /\ SubSeq(chain', 1, Len(chain)) = chain

\* C17: after a successful mine_block every input key of a selected
\* transaction is absent from the store, every output i is present under
\* (tx_id, i) with the output's amount and address, the transaction has left
\* the mempool, the unselected valid transactions remain in it, the UTXOs no
\* selected transaction refers to are unchanged, and one block is appended
C17_MinedState ==
    [][\A miner_address \in Miners, num_txs \in NumTxsChoices :
         (/\ result'.op = "mine" /\ result'.ok
          /\ MineBlock(miner_address, num_txs))
           => MinedState(SelectedTxs(num_txs), UnselectedTxs(num_txs))]_vars

\* input UTXO amounts minus output amounts of tx, read in the current store
SpentMinusPaid(tx) ==
    SumAmounts([i \in 1..Len(tx.inputs) |-> get_utxo(utxos, InpKey(tx.inputs[i]))])
      - SumAmounts(tx.outputs)

RECURSIVE SumSpentMinusPaid(_)
SumSpentMinusPaid(txs) ==
    IF txs = <<>> THEN 0
    ELSE SpentMinusPaid(Head(txs)) + SumSpentMinusPaid(Tail(txs))

IsCoinbase(tx) == tx.tx_id[1] = "coinbase"

\* the block a successful mine_block step appended and the UTXO it minted
CoinbaseOf(miner_address, selected_txs) ==
    LET block == chain'[Len(chain')]
        txs == block.transactions
        cb == txs[Len(txs)]
    IN /\ chain' = Append(chain, block)
       /\ txs = selected_txs \o <<cb>>
       /\ IsCoinbase(cb)
       /\ \A i \in 1..Len(selected_txs) : ~IsCoinbase(txs[i])
       /\ cb.inputs = <<>>
       /\ cb.outputs = <<[amount |-> block.total_fees, address |-> miner_address]>>
       /\ block.total_fees = SumSpentMinusPaid(selected_txs)
       /\ block.total_fees >= 0
       /\ HasUtxo(utxos', <<cb.tx_id, 0>>)
       /\ get_utxo(utxos', <<cb.tx_id, 0>>).amount = block.total_fees
       /\ get_utxo(utxos', <<cb.tx_id, 0>>).owner = miner_address

\* C18: every appended block holds exactly one coinbase transaction, placed
\* after the selected transactions, with no inputs and one output paying
\* total_fees to the miner; total_fees is the sum over the selected
\* transactions of input amounts minus output amounts and is >= 0; the UTXO
\* (coinbase tx_id, 0) of that amount is minted to the miner, also at zero
C18_Coinbase ==
    [][\A miner_address \in Miners, num_txs \in NumTxsChoices :
         (/\ result'.op = "mine" /\ result'.ok
          /\ MineBlock(miner_address, num_txs))
           => CoinbaseOf(miner_address, SelectedTxs(num_txs))]_vars

\* a block of zero total fees was mined and its zero coinbase UTXO minted
C18_Witness ==
    /\ result.op = "mine" /\ result.ok
    /\ Len(chain) = 1
    /\ chain[1].total_fees = 0
    /\ Len(chain[1].transactions) >= 2
    /\ \E u \in Range(utxos) : IsCoinbase(u) /\ u.amount = 0 /\ u.owner = "Miner"

NO_TRANSACTIONS == "No transactions in mempool"
NO_VALID_TRANSACTIONS == "No valid transactions to mine"

\* a mine_block step that returned the failure value with this reason and
\* left the chain and the UTXO store as they were
MineFailed(reason) ==
    /\ result' = [op |-> "mine", ok |-> FALSE, reason |-> reason]
    /\ chain' = chain
    /\ utxos' = utxos
    /\ \A u \in Range(utxos') : IsCoinbase(u) => u \in Range(utxos)

\* C19: mine_block fails with "No transactions in mempool" on an empty
\* mempool and with the distinct "No valid transactions to mine" when the
\* mempool is non-empty and the selection is empty; in both cases no block
\* is appended, no coinbase is minted and the UTXO store is unchanged
C19_MineFailures ==
    [][\A miner_address \in Miners, num_txs \in NumTxsChoices :
         (result'.op = "mine" /\ MineBlock(miner_address, num_txs))
           => /\ NO_TRANSACTIONS # NO_VALID_TRANSACTIONS
              /\ mempool = <<>> => MineFailed(NO_TRANSACTIONS)
              /\ (mempool # <<>> /\ SelectedTxs(num_txs) = <<>>)
                   => MineFailed(NO_VALID_TRANSACTIONS)
              /\ ~result'.ok => (mempool = <<>> \/ SelectedTxs(num_txs) = <<>>)]_vars

\* mine_block has just refused to mine a non-empty mempool
C19_Witness ==
    /\ result = [op |-> "mine", ok |-> FALSE, reason |-> NO_VALID_TRANSACTIONS]
    /\ mempool # <<>>
    /\ utxos # <<>>
    /\ chain = <<>>

(***************************************************************************)
(* One coin passed back and forth, a block mined for every transfer, until *)
(* the chain is longer than what get_blockchain returns.                   *)
(***************************************************************************)
LongChainAllocations == {<<[owner |-> "Alice", amount |-> 1]>>}

LongChainRequests == {Request("Alice", "Bob", 1, 0), Request("Bob", "Alice", 1, 0)}

MineLongChain(miner_address, num_txs) ==
    Len(chain) < MaxLongChain /\ mine_block(miner_address, num_txs)

NextLongChain ==
    \/ \E allocations \in LongChainAllocations : InitGenesis(allocations)
    \/ \E r \in LongChainRequests :
          CreateTransaction(r.sender, r.recipient, r.amount, r.fee, RandLo)
    \/ \E miner_address \in Miners, num_txs \in NumTxsChoices :
          MineLongChain(miner_address, num_txs)
    \/ (chain = <<>> /\ Tick)

SpecLongChain == InitApi /\ [][NextLongChain]_vars

\* C20: the block_number of every appended block is the number of blocks
\* already in the chain plus 1, so the numbers start at 1 and strictly
\* increase along the chain, whatever its length
C20_BlockNumbers == \A i \in 1..Len(chain) : chain[i].block_number = i

\* C21: the previous_hash of the first appended block is the genesis
\* sentinel and the previous_hash of every later block is the hash of the
\* block appended immediately before it, whatever the length of the chain
C21_HashLinks ==
    \A i \in 1..Len(chain) :
        chain[i].previous_hash = IF i = 1 THEN GENESIS_HASH ELSE chain[i - 1].hash

IsPrefix(s, t) == Len(s) <= Len(t) /\ SubSeq(t, 1, Len(s)) = s

\* C22: the chain is append-only: no create_transaction or mine_block call
\* removes, reorders or modifies an appended block; a successful mine_block
\* extends the chain by exactly one block at the end, a failed one leaves it
\* unchanged, and only init_genesis clears it
C22_AppendOnly ==
    [][/\ \A r \in SupplyRequests, x \in Suffixes :
            CreateTransaction(r.sender, r.recipient, r.amount, r.fee, x)
              => chain' = chain
       /\ \A miner_address \in Miners, num_txs \in NumTxsChoices :
            mine_block(miner_address, num_txs)
              => IF result'.ok
                 THEN IsPrefix(chain, chain') /\ Len(chain') = Len(chain) + 1
                 ELSE chain' = chain
       /\ ~IsPrefix(chain, chain')
            => \E allocations \in Allocations : InitGenesis(allocations)]_vars

\* a second block has just been appended behind the first
C22_Witness ==
    /\ result.op = "mine" /\ result.ok
    /\ Len(chain) = 2
    /\ chain[1].block_number = 1 /\ chain[2].block_number = 2

\* C23: every transaction in the mempool has status "pending" and every
\* transaction of an appended block, the selected ones and the coinbase,
\* has status "confirmed"
C23_StatusLifecycle ==
    /\ \A i \in 1..Len(mempool) : mempool[i].status = "pending"
    /\ \A b \in 1..Len(chain) :
          \A i \in 1..Len(chain[b].transactions) :
              chain[b].transactions[i].status = "confirmed"

\* view holds the newest min(ChainReadCap, k) of the k stored blocks, the
\* most recently appended first
NewestFirst(view, stored) ==
    /\ Len(view) = Min2(ChainReadCap, Len(stored))
    /\ \A i \in 1..Len(view) : view[i] = stored[Len(stored) - i + 1]

\* C24: for a stored chain of k blocks get_blockchain returns exactly the
\* newest min(20, k) blocks, most recent first, and the call (made by every
\* mine_block) leaves the stored blocks as they were
C24_NewestFirstCapped ==
    /\ []NewestFirst(get_blockchain(chain), chain)
    /\ [][\A miner_address \in Miners, num_txs \in NumTxsChoices :
            MineLongChain(miner_address, num_txs) => IsPrefix(chain, chain')]_vars

\* the stored chain is longer than what get_blockchain returns
C24_Witness ==
    /\ result.op = "mine" /\ result.ok
    /\ Len(chain) > ChainReadCap
    /\ Len(get_blockchain(chain)) = ChainReadCap
    /\ get_blockchain(chain)[1] = chain[Len(chain)]

\* the store init_genesis(allocations) leaves: one UTXO (genesis, i) per
\* allocation and nothing else, an empty mempool and an empty chain
FreshLedger(allocations) ==
    /\ Len(utxos') = Len(allocations)
    /\ \A i \in 1..Len(allocations) :
          /\ HasUtxo(utxos', <<GENESIS_ID, i - 1>>)
          /\ get_utxo(utxos', <<GENESIS_ID, i - 1>>).amount = allocations[i].amount
          /\ get_utxo(utxos', <<GENESIS_ID, i - 1>>).owner = allocations[i].owner
          /\ get_balance(utxos', allocations[i].owner) = allocations[i].amount
    /\ \A a \in Addr :
          (\A i \in 1..Len(allocations) : allocations[i].owner # a)
            => get_balance(utxos', a) = 0
    /\ mempool' = <<>>
    /\ chain' = <<>>

\* C25: init_genesis(allocations), called in any state, clears the UTXOs,
\* the mempool and the chain and installs exactly one UTXO (genesis, i) per
\* allocation: the balance of every allocated address is its allocation,
\* every other balance is 0, the mempool and the chain are empty
C25_GenesisResets ==
    [][\A allocations \in Allocations :
         (result'.op = "genesis" /\ InitGenesis(allocations))
           => FreshLedger(allocations)]_vars

\* a ledger just reset to two allocations, some time after the start
C25_Witness ==
    /\ result.op = "genesis"
    /\ now > 0
    /\ Len(utxos) = 2
    /\ get_balance(utxos, "Alice") = 3 /\ get_balance(utxos, "Bob") = 2
    /\ get_balance(utxos, "Miner") = 0
    /\ mempool = <<>> /\ chain = <<>>

MEMPOOL_FULL == "Mempool full and cannot evict lower fee transactions"

\* add_transaction(tx) on a full pool: the resident of lowest fee, the
\* earliest-inserted among equals, is gone and its input keys are released
\* before tx is validated
EvictsLowestFirst(tx) ==
    LET i == MinFeeIndex(utxo_set, transactions)
        kept == WithoutEntry(transactions, i)
        released == spent_utxos \ InputKeys(transactions[i])
        v == Validator_validate_transaction(utxo_set, released, tx)
    IN /\ ret' = [op |-> "add", ok |-> v.ok, reason |-> v.reason]
       /\ ret'.reason # MEMPOOL_FULL
       /\ transactions' = IF v.ok THEN Append(kept, tx) ELSE kept
       /\ spent_utxos' = IF v.ok THEN released \cup InputKeys(tx) ELSE released

\* C26: add_transaction on a pool at capacity evicts exactly one resident
\* before validating the incoming transaction: the one of lowest fee against
\* the current store, the earliest-inserted among equal lowest fees, whose
\* input keys leave spent_utxos; the call is rejected as mempool-full only
\* when the pool is empty
C26_EvictsLowestFee ==
    [][\A tx \in CoreTxs :
         (/\ ret'.op = "add"
          /\ Len(transactions) >= max_size
          /\ AddTransaction(tx))
           => IF transactions = <<>>
              THEN /\ ret' = [op |-> "add", ok |-> FALSE, reason |-> MEMPOOL_FULL]
                   /\ UNCHANGED <<transactions, spent_utxos>>
              ELSE EvictsLowestFirst(tx)]_vars

\* the values of n offered to get_top_transactions
TopCounts == 0..(max_size + 1)

\* top lists min(n, pool size) residents of pool by descending fee, equal
\* fees in insertion order, none of the residents left out having a higher
\* fee than a listed one
TopByFee(top, store, pool, n) ==
    /\ Len(top) = Min2(n, Len(pool))
    /\ \E p \in [1..Len(top) -> 1..Len(pool)] :
          /\ \A k \in 1..Len(top) : top[k] = pool[p[k]]
          /\ \A k, l \in 1..Len(top) :
                k < l => \/ calculate_fee(store, pool[p[k]]) > calculate_fee(store, pool[p[l]])
                         \/ /\ calculate_fee(store, pool[p[k]]) = calculate_fee(store, pool[p[l]])
                            /\ p[k] < p[l]
          /\ \A j \in 1..Len(pool), k \in 1..Len(top) :
                (\A m \in 1..Len(top) : p[m] # j)
                  => calculate_fee(store, pool[p[k]]) >= calculate_fee(store, pool[j])

\* C27: get_top_transactions(n, utxo_manager) with n >= 0 returns min(n,
\* pool size) residents by descending fee against the current store, equal
\* fees in insertion order, every returned fee >= every fee left out; the
\* call (made by every mine_block) does not modify the mempool
C27_TopByFee ==
    /\ [](\A n \in TopCounts :
            TopByFee(get_top_transactions(utxo_set, transactions, n),
                     utxo_set, transactions, n))
    /\ [][\A num_txs \in NumTxsChoices :
            (/\ CoreMineBlock("Miner", num_txs)
             /\ get_top_transactions(utxo_set, transactions, num_txs) = <<>>)
              => UNCHANGED <<transactions, spent_utxos>>]_vars

\* the later of two residents pays the higher fee
C27_Witness ==
    /\ Len(transactions) = 2
    /\ calculate_fee(utxo_set, transactions[1]) < calculate_fee(utxo_set, transactions[2])
    /\ get_top_transactions(utxo_set, transactions, 1) = <<transactions[2]>>
    /\ ret.op = "add" /\ ret.ok

\* included lists min(n, number of valid) of the valid transactions by
\* descending fee, equal fees in the order of valid, none of those left out
\* having a higher fee than an included one
IncludesTop(included, valid, n) ==
    /\ Len(included) = Min2(n, Len(valid))
    /\ \E p \in [1..Len(included) -> 1..Len(valid)] :
          /\ \A k \in 1..Len(included) : included[k] = valid[p[k]].tx
          /\ \A k, l \in 1..Len(included) :
                k < l => \/ valid[p[k]].fee > valid[p[l]].fee
                         \/ valid[p[k]].fee = valid[p[l]].fee /\ p[k] < p[l]
          /\ \A j \in 1..Len(valid), k \in 1..Len(included) :
                (\A m \in 1..Len(included) : p[m] # j)
                  => valid[p[k]].fee >= valid[j].fee

\* the transactions of block b that are not its coinbase
NonCoinbase(b) ==
    LET Ordinary(tx) == ~IsCoinbase(tx) IN SelectSeq(b.transactions, Ordinary)

\* C28: mine_block(miner, n) with n >= 1 includes exactly min(n, number of
\* pending transactions that pass re-validation) non-coinbase transactions,
\* by descending fee with ties in mempool insertion order, every included
\* fee being >= the fee of every valid transaction left out
C28_IncludesTopByFee ==
    [][\A miner_address \in Miners, num_txs \in NumTxsChoices :
         (/\ num_txs >= 1
          /\ result'.op = "mine"
          /\ mine_block(miner_address, num_txs))
           => LET valid == Revalidate(utxos, mempool, mempool, <<>>).tx_fees
              IN IF valid = <<>>
                 THEN chain' = chain /\ ~result'.ok
                 ELSE /\ Len(chain') = Len(chain) + 1
                      /\ IncludesTop(NonCoinbase(chain'[Len(chain')]), valid, num_txs)]_vars

\* a block took the one transaction paying a fee and left the free one,
\* created before it, in the mempool
C28_Witness ==
    /\ result.op = "mine" /\ result.ok
    /\ Len(chain) = 1
    /\ Len(NonCoinbase(chain[1])) = 1
    /\ chain[1].total_fees = 1
    /\ Len(mempool) = 1
    /\ mempool[1].timestamp <= chain[1].transactions[1].timestamp
    /\ FeeOf(utxos, mempool[1]) = 0

\* lines 129-146: for every transaction of the list read at line 119, in
\* order, whether it passed validate_transaction when its turn came
RECURSIVE Verdicts(_, _, _)
Verdicts(store, todo, pool) ==
    IF todo = <<>> THEN <<>>
    ELSE LET passed == validate_transaction(store, pool, Head(todo)).ok
         IN <<passed>> \o
            Verdicts(store, Tail(todo),
                     IF passed THEN pool ELSE remove_from_mempool(pool, Head(todo).tx_id))

\* what a mine_block step did with the pending transactions, by verdict:
\* one that passed is in the pool the loop of lines 129-146 leaves, one that
\* failed is neither in the mempool nor in the block afterwards
Revalidated(verdicts) ==
    LET mined == IF chain' = chain THEN <<>> ELSE NonCoinbase(chain'[Len(chain')])
        after_loop == Revalidate(utxos, mempool, mempool, <<>>).pool
    IN /\ \A i \in 1..Len(mempool) :
            IF verdicts[i]
            THEN mempool[i] \in Range(after_loop)
            ELSE mempool[i] \notin Range(mempool') \cup Range(mined)
       /\ \A k \in 1..Len(mined) :
            \E i \in 1..Len(mempool) : verdicts[i] /\ mempool[i] = mined[k]
       /\ IF chain' = chain
          THEN utxos' = utxos
          ELSE chain'[Len(chain')].total_fees = SumSpentMinusPaid(mined)

(***************************************************************************)
(* Three calls of mine_block over transfers that spend the outputs of      *)
(* earlier blocks.                                                         *)
(***************************************************************************)
MaxMineCalls == 3

RespendAllocations == {<<[owner |-> "Alice", amount |-> 3]>>}

RespendRequests ==
    {Request("Alice", "Bob", 1, 0), Request("Bob", "Alice", 1, 0),
     Request("Miner", "Alice", 0, 0)}

MineRespend(miner_address, num_txs) ==
    Len(chain) < MaxMineCalls /\ mine_block(miner_address, num_txs)

NextRespend ==
    \/ \E allocations \in RespendAllocations : InitGenesis(allocations)
    \/ \E r \in RespendRequests :
          CreateTransaction(r.sender, r.recipient, r.amount, r.fee, RandLo)
    \/ \E miner_address \in Miners, num_txs \in NumTxsChoices :
          MineRespend(miner_address, num_txs)
    \/ Tick

SpecRespend == InitApi /\ [][NextRespend]_vars

\* C29: during mine_block every pending transaction that fails
\* validate_transaction is removed from the mempool, is not in the block and
\* adds nothing to total_fees or to the UTXO changes; a transaction that
\* passes is never dropped by the re-validation
C29_RevalidationDrops ==
    [][\A miner_address \in Miners, num_txs \in NumTxsChoices :
         (/\ result'.op = "mine"
          /\ mempool # <<>>
          /\ mine_block(miner_address, num_txs))
           => Revalidated(Verdicts(utxos, mempool, mempool))]_vars

(***************************************************************************)
(* BitcoinService.mine_block called by two server threads at once: the     *)
(* endpoint of main.py is a plain def, which the server runs in a thread   *)
(* pool, and neither the service nor the store takes a lock.  A call is    *)
(* cut where it goes back to the store: after the selection (lines         *)
(* 119-155), after the block is built from the chain read at line 158,     *)
(* after the commit loop and the coinbase UTXO (lines 192-200), and after  *)
(* add_block (line 202).                                                   *)
(***************************************************************************)
\* lines 119-155: read the mempool, re-validate, sort, slice
MineSelect(t, miner_address, num_txs) ==
    LET rv == Revalidate(utxos, mempool, mempool, <<>>)
        selected == PySlice(SortByFeeDesc(rv.tx_fees), num_txs)
    IN /\ mining[t].pc = "idle"
       /\ IF mempool = <<>>
          THEN /\ result' = Outcome("mine", FALSE, "No transactions in mempool")
               /\ UNCHANGED <<mempool, mining>>
          ELSE IF selected = <<>>
          THEN /\ result' = Outcome("mine", FALSE, "No valid transactions to mine")
               /\ mempool' = rv.pool
               /\ UNCHANGED mining
          ELSE /\ mempool' = rv.pool
               /\ mining' = [mining EXCEPT ![t] =
                                [pc |-> "selected", miner_address |-> miner_address,
                                 selected |-> selected, block |-> <<>>,
                                 done |-> 0]]
               /\ UNCHANGED result
       /\ UNCHANGED <<utxos, chain, now, genesis, observed>>
       /\ UNCHANGED coreVars

\* lines 158-184: read the chain and the clock, build coinbase and block
MineBuild(t) ==
    /\ mining[t].pc = "selected"
    /\ mining' = [mining EXCEPT ![t].pc = "built",
                                ![t].block = <<BuildBlock(chain, mining[t].miner_address,
                                                          mining[t].selected, now)>>]
    /\ UNCHANGED <<utxos, mempool, chain, now, genesis, result, observed>>
    /\ UNCHANGED coreVars

\* lines 192-200: the commit loop and the coinbase UTXO
MineCommit(t) ==
    LET selected == mining[t].selected
        block == mining[t].block[1]
        done == Commit(utxos, mempool, [i \in 1..Len(selected) |-> selected[i].tx])
        coinbase == block.transactions[Len(block.transactions)]
    IN /\ mining[t].pc = "built"
       /\ utxos' = add_utxo(done.store,
                            [tx_id |-> coinbase.tx_id, index |-> 0,
                             amount |-> block.total_fees,
                             owner |-> mining[t].miner_address])
       /\ mempool' = done.pool
       /\ mining' = [mining EXCEPT ![t].pc = "committed"]
       /\ UNCHANGED <<chain, now, genesis, result, observed>>
       /\ UNCHANGED coreVars

\* lines 202-204: add_block and return
MineAppend(t) ==
    /\ mining[t].pc = "committed"
    /\ chain' = add_block(chain, mining[t].block[1])
    /\ result' = Outcome("mine", TRUE, "Mined block")
    /\ mining' = [mining EXCEPT ![t] = Idle]
    /\ UNCHANGED <<utxos, mempool, now, genesis, observed>>
    /\ UNCHANGED coreVars

\* one transfer that can be built once: it spends the whole allocation
ConcurrentAllocations == {<<[owner |-> "Alice", amount |-> 3]>>}
ConcurrentRequests == {Request("Alice", "Bob", 2, 1)}

NextConcurrent ==
    \/ \E allocations \in ConcurrentAllocations :
          genesis = <<>> /\ InitGenesis(allocations)
    \/ \E r \in ConcurrentRequests :
          CreateTransaction(r.sender, r.recipient, r.amount, r.fee, RandLo)
    \/ \E t \in Threads, miner_address \in Miners, num_txs \in NumTxsChoices :
          MineSelect(t, miner_address, num_txs)
    \/ \E t \in Threads : MineBuild(t)
    \/ \E t \in Threads : MineCommit(t)
    \/ \E t \in Threads : MineAppend(t)
    \/ Tick

SpecConcurrent == InitApi /\ [][NextConcurrent]_vars

\* C30: when two mine_block calls interleave at their store operations, no
\* pending transaction is included in two appended blocks and its fee is
\* not minted to a miner twice
C30_NoDoubleMining ==
    /\ \A i, j \in 1..Len(chain) :
          i < j => Range(NonCoinbase(chain[i])) \cap Range(NonCoinbase(chain[j])) = {}
    /\ TotalSupply(utxos) <= TotalSupply(genesis)

(***************************************************************************)
(* A reader beside one mine_block call.  The endpoints get_balance and     *)
(* get_utxos are plain defs run by the same thread pool, so a read falls   *)
(* between any two store operations of the commit phase (lines 192-200),   *)
(* which is cut here at every call of the store.                           *)
(***************************************************************************)
KeyOnly(tx_id, index) == [tx_id |-> tx_id, index |-> index, amount |-> 0, owner |-> ""]

\* lines 193-197 for one transaction: the store calls in the order made
TxStoreOps(tx) ==
    [i \in 1..Len(tx.inputs) |->
        [kind |-> "remove_utxo", utxo |-> KeyOnly(tx.inputs[i].prev_tx, tx.inputs[i].index)]]
    \o [i \in 1..Len(tx.outputs) |->
        [kind |-> "add_utxo",
         utxo |-> [tx_id |-> tx.tx_id, index |-> i - 1,
                   amount |-> tx.outputs[i].amount, owner |-> tx.outputs[i].address]]]
    \o <<[kind |-> "remove_from_mempool", utxo |-> KeyOnly(tx.tx_id, 0)]>>

RECURSIVE LoopStoreOps(_)
LoopStoreOps(selected_txs) ==
    IF selected_txs = <<>> THEN <<>>
    ELSE TxStoreOps(Head(selected_txs)) \o LoopStoreOps(Tail(selected_txs))

\* lines 192-200: the loop, then the coinbase UTXO
CommitStoreOps(selected_txs, coinbase_tx, total_fees, miner_address) ==
    LoopStoreOps(selected_txs)
    \o <<[kind |-> "add_utxo",
          utxo |-> [tx_id |-> coinbase_tx.tx_id, index |-> 0,
                    amount |-> total_fees, owner |-> miner_address]]>>

\* the next store call of the commit phase of thread t
MineCommitOp(t) ==
    LET selected == mining[t].selected
        block == mining[t].block[1]
        ops == CommitStoreOps([i \in 1..Len(selected) |-> selected[i].tx],
                              block.transactions[Len(block.transactions)],
                              block.total_fees, mining[t].miner_address)
        op == ops[mining[t].done + 1]
    IN /\ mining[t].pc = "built"
       /\ utxos' = CASE op.kind = "remove_utxo" -> remove_utxo(utxos, KeyOf(op.utxo))
                     [] op.kind = "add_utxo" -> add_utxo(utxos, op.utxo)
                     [] OTHER -> utxos
       /\ mempool' = IF op.kind = "remove_from_mempool"
                     THEN remove_from_mempool(mempool, op.utxo.tx_id)
                     ELSE mempool
       /\ mining' = [mining EXCEPT ![t].done = @ + 1,
                                   ![t].pc = IF mining[t].done + 1 = Len(ops)
                                             THEN "committed" ELSE "built"]
       /\ UNCHANGED <<chain, now, genesis, result, observed>>
       /\ UNCHANGED coreVars

\* GET /api/utxos/{address}: one read of the store
GetUtxos(address) ==
    /\ observed' = [address |-> address, utxos |-> get_utxos(utxos, address)]
    /\ result' = Outcome("get_utxos", TRUE, address)
    /\ UNCHANGED <<utxos, mempool, chain, now, genesis, mining>>
    /\ UNCHANGED coreVars

\* one mine_block call at a time: the reader is the only other thread
MineAlone(t, miner_address, num_txs) ==
    /\ \A s \in Threads \ {t} : mining[s].pc = "idle"
    /\ MineSelect(t, miner_address, num_txs)

\* a transfer with change, so that the sender both loses and gains a UTXO
ReaderAllocations == {<<[owner |-> "Alice", amount |-> 3]>>}
ReaderRequests == {Request("Alice", "Bob", 1, 1)}

NextReader ==
    \/ \E allocations \in ReaderAllocations :
          genesis = <<>> /\ InitGenesis(allocations)
    \/ \E r \in ReaderRequests :
          CreateTransaction(r.sender, r.recipient, r.amount, r.fee, RandLo)
    \/ \E t \in Threads, miner_address \in Miners, num_txs \in NumTxsChoices :
          MineAlone(t, miner_address, num_txs)
    \/ \E t \in Threads : MineBuild(t)
    \/ \E t \in Threads : MineCommitOp(t)
    \/ \E t \in Threads : MineAppend(t)
    \/ \E address \in Addr : GetUtxos(address)
    \/ Tick

SpecReader == InitApi /\ [][NextReader]_vars

\* the listing a reader got for an address shows no selected transaction
\* half applied: an input of that address gone, an output or the coinbase
\* UTXO of that address not there yet
WholeTransactions(view, address) ==
    \A t \in Threads :
       mining[t].pc = "built" =>
          \A i \in 1..Len(mining[t].selected) :
             LET tx == mining[t].selected[i].tx
                 coinbase_tx == mining[t].block[1].transactions[
                                    Len(mining[t].block[1].transactions)]
             IN (\E k \in 1..Len(tx.inputs) :
                    /\ tx.inputs[k].owner = address
                    /\ ~HasUtxo(view, InpKey(tx.inputs[k])))
                => /\ \A o \in 1..Len(tx.outputs) :
                         tx.outputs[o].address = address
                           => HasUtxo(view, <<tx.tx_id, o - 1>>)
                   /\ mining[t].miner_address = address
                         => HasUtxo(view, <<coinbase_tx.tx_id, 0>>)

\* C31: a get_utxos or get_balance call made while mine_block commits
\* never sees a selected transaction's inputs deleted with its outputs and
\* the coinbase UTXO not yet present, and the UTXO amounts in the store it
\* reads never total less than the genesis allocations
C31_ReaderSeesWholeCommit ==
    [][\A address \in Addr :
         GetUtxos(address)
           => /\ WholeTransactions(observed'.utxos, address)
              /\ TotalSupply(utxos) >= TotalSupply(genesis)]_vars

\* C32: a Mempool.add_transaction call that returns failure, for whatever
\* reason, leaves the resident transactions (and their order) and
\* spent_utxos exactly as they were, also when the pool was at max_size
C32_FailedAddChangesNothing ==
    [][(/\ ret'.op = "add"
        /\ ~ret'.ok
        /\ \E tx \in CoreTxs : AddTransaction(tx))
          => UNCHANGED <<transactions, spent_utxos>>]_vars

\* the input keys of the transactions resident in the pool
ResidentKeys(pool) == UNION {InputKeys(pool[i]) : i \in 1..Len(pool)}

\* C33: after any sequence of add_transaction, remove_transaction,
\* eviction, clear and block.mine_block, spent_utxos is exactly the union of
\* the (prev_tx, index) input keys of the resident transactions: no stale key
\* after a removal or eviction, no resident key missing
C33_SpentTracksResidents == spent_utxos = ResidentKeys(transactions)

\* a resident was removed, by remove_transaction or by a block, and the
\* pool still holds a transaction with inputs
C33_Witness ==
    /\ ret.op \in {"remove", "mine"}
    /\ ret.ok
    /\ transactions # <<>>
    /\ spent_utxos # {}

(***************************************************************************)
(* The service called one request at a time, the clock and the random      *)
(* suffix giving every transaction an id no pending or mined transaction   *)
(* carries.                                                                *)
(***************************************************************************)
IdsInUse ==
    {mempool[i].tx_id : i \in 1..Len(mempool)}
    \cup {ChainTxs(chain)[i].tx_id : i \in 1..Len(ChainTxs(chain))}

CreateFresh(sender, recipient, amount, fee, random_suffix) ==
    /\ TxId(now, random_suffix) \notin IdsInUse
    /\ CreateTransaction(sender, recipient, amount, fee, random_suffix)

NextFreshIds ==
    \/ \E allocations \in Allocations : InitGenesis(allocations)
    \/ \E r \in PendingRequests :
          CreateFresh(r.sender, r.recipient, r.amount, r.fee, RandLo)
    \/ \E miner_address \in Miners, num_txs \in NumTxsChoices :
          MineBlock(miner_address, num_txs)
    \/ Tick

SpecFreshIds == InitApi /\ [][NextFreshIds]_vars

\* C34: with fresh transaction ids and the calls made one at a time, every
\* pending transaction passes validate_transaction against the current
\* store and mempool and has fee >= 0, so the re-validation loop of
\* mine_block would drop nothing
C34_PendingStayValid ==
    /\ \A i \in 1..Len(mempool) :
          /\ validate_transaction(utxos, mempool, mempool[i]).ok
          /\ FeeOf(utxos, mempool[i]) >= 0
    /\ Revalidate(utxos, mempool, mempool, <<>>).pool = mempool

\* a block was mined from a batch and a transaction with inputs is left
\* pending
C34_Witness ==
    /\ result.op = "mine"
    /\ result.ok
    /\ \E i \in 1..Len(mempool) : mempool[i].inputs # <<>>

SignedRequests ==
    {Request("Alice", "Bob", 2, 1), Request("Bob", "Alice", 1, 0),
     Request("Alice", "Miner", -1, 1), Request("Alice", "Bob", 1, -1)}

NextSigned ==
    \/ \E allocations \in Allocations : InitGenesis(allocations)
    \/ \E r \in SignedRequests :
          CreateTransaction(r.sender, r.recipient, r.amount, r.fee, RandLo)
    \/ \E miner_address \in Miners, num_txs \in NumTxsChoices :
          MineBlock(miner_address, num_txs)
    \/ Tick

SpecSigned == InitApi /\ [][NextSigned]_vars

\* C36: with non-negative genesis allocations, every UTXO in the store has
\* amount >= 0 after any create_transaction and mine_block calls, transaction
\* and coinbase outputs included, so get_balance is >= 0 for every address
C36_AmountsNonNegative ==
    /\ \A i \in 1..Len(utxos) : utxos[i].amount >= 0
    /\ \A address \in Addr : get_balance(utxos, address) >= 0

\* a block has put a transaction output and a coinbase output in the store
C36_Witness ==
    /\ chain # <<>>
    /\ \E i \in 1..Len(utxos) : utxos[i].tx_id[1] = "tx"
    /\ \E i \in 1..Len(utxos) : utxos[i].tx_id[1] = "coinbase" /\ utxos[i].amount > 0

(***************************************************************************)
(* Mining until the mempool is drained.  Transfers are requested first;    *)
(* from the first mine_block call on nothing is created any more and       *)
(* mine_block is called again and again with num_txs >= 1 (weak fairness   *)
(* of the call: whoever drains the pool keeps calling).                    *)
(***************************************************************************)
DrainNumTxs == {n \in NumTxsChoices : n >= 1}

DrainCreate(sender, recipient, amount, fee, random_suffix) ==
    /\ result.op # "mine"
    /\ CreateTransaction(sender, recipient, amount, fee, random_suffix)

DrainMine == \E miner_address \in Miners, num_txs \in DrainNumTxs : mine_block(miner_address, num_txs)

NextDrain ==
    \/ \E allocations \in Allocations :
          genesis = <<>> /\ InitGenesis(allocations)
    \/ \E r \in PendingRequests :
          DrainCreate(r.sender, r.recipient, r.amount, r.fee, RandLo)
    \/ DrainMine
    \/ Tick

SpecDrain == InitApi /\ [][NextDrain]_vars /\ WF_vars(DrainMine)

\* C37: once nothing is created any more, every mine_block call with
\* num_txs >= 1 on a non-empty mempool succeeds and leaves the mempool
\* strictly smaller, whatever leaves the mempool is in a block, and repeated
\* mining ends with an empty mempool and 'No transactions in mempool'
C37_MiningDrains ==
    /\ [][(mempool # <<>> /\ DrainMine)
            => /\ result'.ok
               /\ Len(mempool') < Len(mempool)
               /\ Range(mempool) \ Range(mempool') \subseteq Range(ChainTxs(chain'))]_vars
    /\ <>[](mempool = <<>> /\ result = Outcome("mine", FALSE, NO_TRANSACTIONS))

CoinbaseKeys(store) == {KeyOf(store[i]) : i \in {j \in 1..Len(store) : IsCoinbase(store[j])}}

\* the keys under which the transactions of a block store their outputs
BlockOutputKeys(block) ==
    UNION {Range(OutputKeysSeq(block.transactions[i])) : i \in 1..Len(block.transactions)}

\* the keys the transactions of a block spend
BlockInputKeys(block) ==
    UNION {InputKeys(block.transactions[i]) : i \in 1..Len(block.transactions)}

\* C38: block.mine_block creates a coinbase transaction and mints the UTXO
\* (coinbase_<block_number>, 0) to the miner if and only if the total fee of
\* the selected transactions is strictly positive; with a total fee of zero
\* the block has coinbase_tx = None and total_fees = 0, the miner gets no
\* UTXO, and the selected transactions are committed and removed from the
\* mempool all the same
C38_CoinbaseIffPositiveFee ==
    [][(ret'.op = "mine" /\ ret'.ok) =>
        LET block == ret'.block
            total == ApplySelected(utxo_set, block.transactions, 0).total_fees
            key == <<CoreCoinbaseId(block.block_number), 0>>
        IN /\ (total > 0) <=> (block.coinbase_tx # <<>>)
           /\ (total > 0) <=> um_exists(utxo_set', key)
           /\ total > 0 =>
                 /\ um_get_utxo(utxo_set', key).amount = total
                 /\ um_get_utxo(utxo_set', key).owner = block.miner
                 /\ block.total_fees = total
                 /\ CoinbaseKeys(utxo_set') = CoinbaseKeys(utxo_set) \cup {key}
           /\ total = 0 =>
                 /\ block.coinbase_tx = <<>>
                 /\ block.total_fees = 0
                 /\ CoinbaseKeys(utxo_set') = CoinbaseKeys(utxo_set)
                 /\ \A i \in 1..Len(block.transactions) :
                       LET tx == block.transactions[i]
                       IN /\ tx \notin Range(transactions')
                          /\ \A k \in 1..Len(tx.inputs) :
                                \/ ~um_exists(utxo_set', InpKey(tx.inputs[k]))
                                \/ InpKey(tx.inputs[k]) \in BlockOutputKeys(block)
                          /\ \A o \in 1..Len(tx.outputs) :
                                \/ um_exists(utxo_set', <<tx.tx_id, o - 1>>)
                                \/ <<tx.tx_id, o - 1>> \in BlockInputKeys(block)]_vars

====
